---- MODULE Spec2Model ----
(***************************************************************************)
(* A model of ai-schedule-web:                                             *)
(*   - lib/dataStore.ts: the sync layer between the remote record service  *)
(*     and the localStorage cache (getUserData, saveUserData);             *)
(*   - lib/notificationScheduler.ts: the NotificationScheduler class, its  *)
(*     per-notification countdowns and the nag escalation.                 *)
(* SpecStore is the specification of the sync layer, Spec that of the      *)
(* scheduler.  Both run over the same variables; each leaves the other's   *)
(* variables alone.                                                        *)
(***************************************************************************)
EXTENDS Integers, Sequences, FiniteSets, TLC

(***************************************************************************)
(* Values shared by both parts.                                            *)
(***************************************************************************)
\* null / undefined: the empty tuple.  A present value v is the tuple <<v>>.
Null == <<>>
Some(v) == <<v>>
Get(o) == o[1]

\* ------------------------------------------------------------------------
\* Bounds of the model.
\* ------------------------------------------------------------------------
\* The wall clock of the sync layer (the source of updatedAt) runs 0..MaxClock.
MaxClock == 1

\* ------------------------------------------------------------------------
\* Input universes.
\* ------------------------------------------------------------------------
Users == {"u1"}
\* What a record holds besides its userId and updatedAt (profile, schedule,
\* sessions, stats, timer), taken as one opaque value.
Contents == {"a", "b"}
\* What one HTTP exchange with the record service can end in, seen from the
\* client: the request never sent or never answered ("neterr"), the bounded
\* wait running out ("timeout"), or a status line.
NetOutcomes == {"neterr", "timeout", "200", "404", "500"}

VARIABLES
  \* ---- lib/dataStore.ts ----
  urlConfigured,  \* DATA_API_URL is a non-empty string
  remote,         \* the record service: userId -> Null or Some(record)
  localStorage,   \* window.localStorage: key -> Null or Some(stored value)
  clock,          \* new Date() of the sync layer
  pc,             \* "idle", or "saving": saveUserData waits for saveToServer
  pending,        \* while pc = "saving": the call frame of saveUserData (its
                  \* record, and for the properties what setItem did)
  ev,             \* the step just taken and what it returned
  remoteHist,     \* history: every record the service has held, per user
  lastLocal,      \* history: the record saveUserData last wrote to the cache, per user
  \* ---- lib/notificationScheduler.ts ----
  permission,     \* Notification.permission === "granted"
  timers,         \* this.timers: notification id -> timer handle
  nagTimer,       \* this.nagTimer: Null or Some(handle)
  nagStartTimer,  \* this.nagStartTimer: Null or Some(handle)
  host,           \* the host's timer table: the live timeouts and intervals
  latest,         \* history: per id, the notification of the last schedule
                  \* call that has neither fired nor been cancelled since
  sinceStart,     \* history: minutes since the last startNagNotifications
                  \* that armed the delay, NAG_START_DELAY_MIN standing for
                  \* that or more; -1 when the chain has been stopped since
  sinceNag,       \* history: minutes since the last sendNag,
                  \* NAG_INTERVAL_MIN + 1 standing for more than the interval
  hidden,         \* document.hidden
  pageHidden,     \* the last of pagehide and pageshow was pagehide
  away,           \* history: minutes since the application left the
                  \* foreground, NAG_START_DELAY_MIN standing for that or
                  \* more; 0 in the foreground
  \* ---- lib/dataStore.ts, the record helpers ----
  userData,       \* the record the caller threads through the helpers
  wallClock,      \* Date.now() of the helpers, in units of MS_PER_DAY a day
  calls,          \* how many helper calls have changed the record
  appended,       \* history: every appendMessage call, in call order
  created,        \* history: every session appendMessage created, in order
  activeDays,     \* history: the dates of the addStudyTime calls
  heap,           \* the objects the helpers were given and made: address ->
                  \* object, a field holding a value or a reference
  root            \* the address of the record the caller holds

storeVars == <<urlConfigured, remote, clock, pc, pending, remoteHist, lastLocal>>
visVars == <<hidden, pageHidden, away>>
schedVars == <<permission, timers, nagTimer, nagStartTimer, host, latest,
               sinceStart, sinceNag, visVars>>
heapVars == <<heap, root>>
recordVars == <<userData, wallClock, calls, appended, created, activeDays,
                heapVars>>

(***************************************************************************)
(* lib/dataStore.ts                                                        *)
(***************************************************************************)
CACHE_PREFIX == "ai_schedule_user_"
STORAGE_KEY == "scheduled_notifications"

getCacheKey(userId) == CACHE_PREFIX \o userId

StorageKeys == {getCacheKey(u) : u \in Users} \cup {STORAGE_KEY}

\* UserData, reduced to the fields the sync layer reads or writes.
UserData(u, c, t) == [userId |-> u, content |-> c, updatedAt |-> t]
AllUserData == {UserData(u, c, t) : u \in Users, c \in Contents, t \in 0..MaxClock}

\* JSON.stringify / JSON.parse of a value made of strings and numbers only:
\* the text is kept as the value in a one-element tuple, so that "no item"
\* (getItem returning null) differs from every stored text.
JSONstringify(v) == Some(v)
JSONparse(raw) == Get(raw)

\* readCache: getItem, then parse; null when there is no item.  The catch
\* guards JSON.parse; the only writer of these keys is writeCache, whose
\* texts always parse.
readCache(store, userId) ==
  LET raw == store[getCacheKey(userId)]
  IN  IF raw # Null THEN Some(JSONparse(raw)) ELSE Null

\* writeCache: setItem under the record's own userId.  setItem throws when
\* the quota is exhausted (setItemOk = FALSE); the catch swallows it and the
\* store is left as it was.
writeCache(store, data, setItemOk) ==
  IF setItemOk
    THEN [store EXCEPT ![getCacheKey(data.userId)] = JSONstringify(data)]
    ELSE store

\* The body of fetchFromServer's try block: what fetch and the status checks
\* yield.  threw = TRUE is an exception on its way to the catch.
fetchTry(rem, userId, net) ==
  CASE net \in {"neterr", "timeout"} -> [threw |-> TRUE, value |-> Null]
    [] net = "404" -> [threw |-> FALSE, value |-> Null]
    [] net = "500" -> [threw |-> TRUE, value |-> Null]
    [] OTHER -> [threw |-> FALSE, value |-> rem[userId]]

\* fetchFromServer without its catch: an exception leaves the function.
fetchFromServerNoCatch(url, rem, userId, net) ==
  IF ~url THEN [raised |-> FALSE, value |-> Null]
  ELSE LET r == fetchTry(rem, userId, net)
       IN  [raised |-> r.threw, value |-> r.value]

\* fetchFromServer: null without a service URL, null on any exception.
\* The result says whether an exception left the function.
fetchFromServer(url, rem, userId, net) ==
  IF ~url THEN [raised |-> FALSE, value |-> Null]
  ELSE LET r == fetchTry(rem, userId, net)
       IN  IF r.threw THEN [raised |-> FALSE, value |-> Null]
           ELSE [raised |-> FALSE, value |-> r.value]

\* saveToServer retrying once after a failed POST.
saveToServerRetry(url, net) ==
  IF ~url THEN [raised |-> FALSE, ok |-> FALSE, posts |-> 0]
  ELSE IF net \in {"neterr", "timeout"}
         THEN [raised |-> FALSE, ok |-> FALSE, posts |-> 2]
         ELSE [raised |-> FALSE, ok |-> (net = "200"), posts |-> 1]

\* saveToServer: false without a service URL (no request is made), else one
\* POST; res.ok on an answer, false on any exception.  posts counts the
\* requests made.
saveToServer(url, net) ==
  IF ~url THEN [raised |-> FALSE, ok |-> FALSE, posts |-> 0]
  ELSE IF net \in {"neterr", "timeout"}
         THEN [raised |-> FALSE, ok |-> FALSE, posts |-> 1]
         ELSE [raised |-> FALSE, ok |-> (net = "200"), posts |-> 1]

\* What the record service does with a POST it received: it stores the
\* body when it answers 2xx.  A request whose wait ran out on the client
\* ("timeout") may or may not have been stored (applied).
serverAfterPost(rem, data, posts, net, applied) ==
  IF posts > 0 /\ (net = "200" \/ (net = "timeout" /\ applied))
    THEN [rem EXCEPT ![data.userId] = Some(data)]
    ELSE rem

\* getUserData preferring the cache entry to the server's record.
getUserDataCacheFirst(url, rem, store, userId, net, setItemOk) ==
  LET f == fetchFromServer(url, rem, userId, net)
      c == readCache(store, userId)
  IN  IF c # Null
        THEN [raised |-> FALSE, value |-> c, store |-> store, fetched |-> f.value]
      ELSE IF f.value # Null
        THEN [raised |-> FALSE, value |-> f.value,
              store |-> writeCache(store, Get(f.value), setItemOk),
              fetched |-> f.value]
      ELSE [raised |-> FALSE, value |-> Null, store |-> store, fetched |-> Null]

\* getUserData caching a record of its own making when nothing was found.
getUserDataCacheDefault(url, rem, store, userId, net, setItemOk) ==
  LET f == fetchFromServer(url, rem, userId, net)
      c == readCache(store, userId)
      dflt == UserData(userId, "a", 0)
  IN  IF f.value # Null
        THEN [raised |-> FALSE, value |-> f.value,
              store |-> writeCache(store, Get(f.value), setItemOk),
              fetched |-> f.value]
      ELSE IF c # Null
        THEN [raised |-> FALSE, value |-> c, store |-> store, fetched |-> Null]
      ELSE [raised |-> FALSE, value |-> Some(dflt),
            store |-> writeCache(store, dflt, setItemOk), fetched |-> Null]

\* getUserData: the server's record wins and is mirrored into the cache;
\* otherwise the cache entry, otherwise null.
getUserData(url, rem, store, userId, net, setItemOk) ==
  LET f == fetchFromServer(url, rem, userId, net)
  IN  IF f.raised
        THEN [raised |-> TRUE, value |-> Null, store |-> store, fetched |-> Null]
      ELSE IF f.value # Null
        THEN [raised |-> FALSE, value |-> f.value,
              store |-> writeCache(store, Get(f.value), setItemOk),
              fetched |-> f.value]
      ELSE [raised |-> FALSE, value |-> readCache(store, userId),
            store |-> store, fetched |-> Null]

\* The first half of saveUserData: stamp updatedAt, write the cache.
stamp(data, now) == [data EXCEPT !.updatedAt = now]

TypeOKStore ==
  /\ urlConfigured \in BOOLEAN
  /\ \A u \in Users : remote[u] = Null \/ Get(remote[u]) \in AllUserData
  /\ clock \in 0..MaxClock
  /\ pc \in {"idle", "saving"}

InitStore ==
  /\ remote = [u \in Users |-> Null]
  /\ localStorage = [k \in StorageKeys |-> Null]
  /\ clock = 0
  /\ pc = "idle"
  /\ pending = Null
  /\ ev = [op |-> "init"]
  /\ remoteHist = [u \in Users |-> {}]
  /\ lastLocal = [u \in Users |-> Null]

\* getUserData(userId), from the call to its return.
GetUserData(userId, net, setItemOk) ==
  /\ pc = "idle"
  /\ net = "200" => remote[userId] # Null
  /\ net = "404" => remote[userId] = Null
  /\ LET r == getUserData(urlConfigured, remote, localStorage, userId, net, setItemOk)
     IN  /\ localStorage' = r.store
         /\ ev' = [op |-> "getUserData", userId |-> userId, net |-> net,
                   raised |-> r.raised, fetched |-> r.fetched, value |-> r.value,
                   setItemOk |-> setItemOk,
                   cacheBefore |-> readCache(localStorage, userId)]
  /\ UNCHANGED <<urlConfigured, remote, clock, pc, pending, remoteHist, lastLocal>>
  /\ UNCHANGED <<schedVars, recordVars>>

\* saveUserData(data) up to the await: updatedAt stamped, cache written.
SaveBegin(data, setItemOk) ==
  /\ pc = "idle"
  /\ LET d == stamp(data, clock)
     IN  /\ localStorage' = writeCache(localStorage, d, setItemOk)
         /\ pending' = Some([data |-> d, setItemOk |-> setItemOk,
                              cacheBefore |-> readCache(localStorage, d.userId)])
         /\ lastLocal' = IF setItemOk THEN [lastLocal EXCEPT ![d.userId] = Some(d)]
                                    ELSE lastLocal
         /\ ev' = [op |-> "saveBegin", data |-> d]
  /\ pc' = "saving"
  /\ UNCHANGED <<urlConfigured, remote, clock, remoteHist>>
  /\ UNCHANGED <<schedVars, recordVars>>

\* saveUserData after the await: saveToServer's answer is returned.
SaveEnd(net, applied) ==
  /\ pc = "saving"
  /\ LET d == Get(pending).data
         s == saveToServer(urlConfigured, net)
         rem == serverAfterPost(remote, d, s.posts, net, applied)
     IN  /\ remote' = rem
         /\ remoteHist' = [remoteHist EXCEPT ![d.userId] =
                             IF rem[d.userId] # remote[d.userId]
                               THEN @ \cup {d} ELSE @]
         /\ ev' = [op |-> "saveUserData", data |-> d, net |-> net,
                   raised |-> s.raised, ok |-> s.ok, posts |-> s.posts,
                   remoteBefore |-> remote[d.userId],
                   setItemOk |-> Get(pending).setItemOk,
                   cacheBefore |-> Get(pending).cacheBefore]
  /\ pc' = "idle"
  /\ pending' = Null
  /\ UNCHANGED <<urlConfigured, localStorage, clock, lastLocal>>
  /\ UNCHANGED <<schedVars, recordVars>>

\* Another device of the same user writes its record to the service.
OtherDeviceSave(u, c) ==
  /\ LET d == UserData(u, c, clock)
     IN  /\ remote' = [remote EXCEPT ![u] = Some(d)]
         /\ remoteHist' = [remoteHist EXCEPT ![u] = @ \cup {d}]
         /\ ev' = [op |-> "otherDevice", data |-> d]
  /\ UNCHANGED <<urlConfigured, localStorage, clock, pc, pending, lastLocal>>
  /\ UNCHANGED <<schedVars, recordVars>>

\* Time passes.
ClockTick ==
  /\ clock < MaxClock
  /\ clock' = clock + 1
  /\ ev' = [op |-> "clock"]
  /\ UNCHANGED <<urlConfigured, remote, localStorage, pc, pending, remoteHist, lastLocal>>
  /\ UNCHANGED <<schedVars, recordVars>>

NextStore ==
  \/ \E u \in Users, net \in NetOutcomes, q \in BOOLEAN : GetUserData(u, net, q)
  \/ \E d \in AllUserData, q \in BOOLEAN : d.updatedAt <= clock /\ SaveBegin(d, q)
  \/ \E net \in NetOutcomes, a \in BOOLEAN : SaveEnd(net, a)
  \/ \E u \in Users, c \in Contents : OtherDeviceSave(u, c)
  \/ ClockTick

(***************************************************************************)
(* lib/notificationScheduler.ts                                            *)
(*                                                                         *)
(* Time is counted in minutes and kept relative to the present instant:    *)
(* Date.now() is DateNow, an instant is the number of minutes from now,    *)
(* and d minutes passing (Elapse) bring every live timer d closer.  Timer  *)
(* handles are never reused while a field still holds them.  Next takes    *)
(* the tasks' inputs in full and NextCountdown those of schedule, at       *)
(* instants whole ticks of five minutes apart; NextNag takes the nag       *)
(* chain's inputs in full, minute by minute.                               *)
(***************************************************************************)
NAG_INTERVAL_MIN == 5
NAG_START_DELAY_MIN == 10
REMINDER_LEAD_MIN == 5
DateNow == 0

\* scheduleAllTasks is given at most MaxTasks tasks.
MaxTasks == 1

TaskIds == {"t1"}
\* A task: startTime ("HH:MM" today) as minutes from now or Null, and the
\* duration in minutes.
Task(o, d) == [id |-> "t1", title |-> "T", startTime |-> o, duration |-> d]
\* No startTime; start passed with the end ahead; start now; start ahead
\* with the reminder instant now, or ahead.
Tasks ==
  {Task(Null, 5), Task(Some(-5), 10), Task(Some(0), 5), Task(Some(5), 5),
   Task(Some(10), 5)}
\* The lists given to scheduleAllTasks: of tasks whose start is ahead, with
\* the reminder instant now, or ahead.
ListTasks == {Task(Some(5), 5), Task(Some(10), 5)}
TaskLists == UNION {[1..k -> ListTasks] : k \in 0..MaxTasks}

\* Notifications handed to schedule() directly.
DirectIds == {"nag_1", "end_of_day"}
Direct(id, body, at) ==
  [id |-> id, title |-> "note", body |-> body, scheduledAt |-> at,
   tag |-> "note", type |-> "reminder"]
DirectNotifications ==
  {Direct("nag_1", b, at) : b \in {"x", "y"}, at \in {0, 5}}
    \cup {Direct("nag_1", "x", -5), Direct("end_of_day", "x", 0)}

\* Two of them: one whose id scheduleAllTasks leaves alone, one whose id
\* starts with end_.
OtherNotifications == {Direct("nag_1", "x", 5), Direct("end_of_day", "x", 0)}

\* customMessage of startNagNotifications; "" is none given.
NagMessages == {"", "back to work"}
\* The built-in messages sendNag picks from at random.
NagCatalog == {"m1", "m2"}
\* new Date().getHours() when a nag is sent.
Hours == {5, 6, 22, 23}

startsWith(s, p) == Len(s) >= Len(p) /\ SubSeq(s, 1, Len(p)) = p

NotificationIds ==
  {"reminder_" \o t : t \in TaskIds} \cup {"start_" \o t : t \in TaskIds}
    \cup {"end_" \o t : t \in TaskIds} \cup DirectIds

\* Map.set and Map.delete on this.timers.
MapSet(m, k, v) == [x \in DOMAIN m \cup {k} |-> IF x = k THEN v ELSE m[x]]
MapDelete(m, k) == [x \in DOMAIN m \ {k} |-> m[x]]
EmptyMap == [x \in {} |-> Null]

\* What the timer callback keeps of a ScheduledNotification (fire reads
\* title, body, tag and type; the id is read by timers.delete).
Payload(n) == [id |-> n.id, title |-> n.title, body |-> n.body, tag |-> n.tag,
               type |-> n.type]

\* The scheduler object with the host's timer table and the stored item:
\* what one handler reads and writes.  log lists what schedule() armed.
Self ==
  [timers |-> timers, nagTimer |-> nagTimer, nagStartTimer |-> nagStartTimer,
   host |-> host, stored |-> localStorage[STORAGE_KEY], log |-> <<>>]

\* The handle setTimeout / setInterval returns: one no live timer has and
\* no nag field still holds.  It is the least free one for its callback.
NewHandle(s, key) ==
  LET used == {t.h : t \in s.host}
                \cup {Get(r) : r \in {s.nagTimer, s.nagStartTimer} \ {Null}}
      free(k) == [key |-> key, gen |-> k] \notin used
  IN  [key |-> key,
       gen |-> CHOOSE k \in 1..(Cardinality(used) + 1) :
                 free(k) /\ \A j \in 1..(k - 1) : ~free(j)]

\* clearTimeout / clearInterval: the timer with that handle, if live, is gone.
clearTimeout(hostTimers, h) == {t \in hostTimers : t.h # h}

\* saveToStorage: the ids in this.timers, as a list (kept here as the set).
saveToStorage(s) == [s EXCEPT !.stored = JSONstringify(DOMAIN s.timers)]

\* schedule without clearing the countdown the id already has.
scheduleNoClear(s, n) ==
  LET delay == n.scheduledAt - DateNow
  IN  IF delay < 0 THEN s
      ELSE LET h == NewHandle(s, n.id)
               s2 == [s EXCEPT
                        !.host = @ \cup {[h |-> h, fn |-> "countdown",
                                         n |-> Payload(n), due |-> delay]},
                        !.timers = MapSet(@, n.id, h),
                        !.log = Append(@, [n |-> Payload(n), due |-> delay])]
           IN  saveToStorage(s2)

\* schedule(notification)
schedule(s, n) ==
  LET delay == n.scheduledAt - DateNow
  IN  IF delay < 0 THEN s
      ELSE LET s1 == IF n.id \in DOMAIN s.timers
                       THEN [s EXCEPT !.host = clearTimeout(@, s.timers[n.id])]
                       ELSE s
               h == NewHandle(s1, n.id)
               s2 == [s1 EXCEPT
                        !.host = @ \cup {[h |-> h, fn |-> "countdown",
                                         n |-> Payload(n), due |-> delay]},
                        !.timers = MapSet(@, n.id, h),
                        !.log = Append(@, [n |-> Payload(n), due |-> delay])]
           IN  saveToStorage(s2)

ReminderOf(task, at) ==
  [id |-> "reminder_" \o task.id, title |-> "starts in 5 minutes",
   body |-> "prepare " \o task.title, scheduledAt |-> at,
   tag |-> "reminder_" \o task.id, type |-> "reminder"]
StartOf(task, at) ==
  [id |-> "start_" \o task.id, title |-> "task start",
   body |-> "start " \o task.title \o " " \o ToString(task.duration),
   scheduledAt |-> at, tag |-> "task_" \o task.id, type |-> "task_start"]
EndOf(task, at) ==
  [id |-> "end_" \o task.id, title |-> "task done",
   body |-> "done " \o task.title, scheduledAt |-> at,
   tag |-> "task_end_" \o task.id, type |-> "task_end"]

\* scheduleTask scheduling each instant that is still ahead by itself.
scheduleTaskEachInstant(s, task) ==
  IF task.startTime = Null THEN s
  ELSE LET startAt == Get(task.startTime)
           endAt == startAt + task.duration
           reminderAt == startAt - REMINDER_LEAD_MIN
           s1 == IF reminderAt > DateNow
                   THEN schedule(s, ReminderOf(task, reminderAt)) ELSE s
           s2 == IF startAt > DateNow
                   THEN schedule(s1, StartOf(task, startAt)) ELSE s1
       IN  IF endAt > DateNow THEN schedule(s2, EndOf(task, endAt)) ELSE s2

\* scheduleTask that, given a start not ahead, cancels the countdowns the
\* task still has.
scheduleTaskCancelOnPast(s, task) ==
  IF task.startTime = Null THEN s
  ELSE LET startAt == Get(task.startTime)
           own == {"reminder_" \o task.id, "start_" \o task.id, "end_" \o task.id}
                    \cap DOMAIN s.timers
       IN  IF startAt <= DateNow
             THEN saveToStorage(
                    [s EXCEPT
                       !.host = {t \in @ : t.h \notin {s.timers[k] : k \in own}},
                       !.timers = [k \in DOMAIN @ \ own |-> @[k]]])
           ELSE LET endAt == startAt + task.duration
                    reminderAt == startAt - REMINDER_LEAD_MIN
                    s1 == IF reminderAt > DateNow
                            THEN schedule(s, ReminderOf(task, reminderAt))
                            ELSE s
                    s2 == schedule(s1, StartOf(task, startAt))
                IN  schedule(s2, EndOf(task, endAt))

\* scheduleTask(task)
scheduleTask(s, task) ==
  IF task.startTime = Null THEN s
  ELSE LET startAt == Get(task.startTime)
       IN  IF startAt <= DateNow THEN s
           ELSE LET endAt == startAt + task.duration
                    reminderAt == startAt - REMINDER_LEAD_MIN
                    s1 == IF reminderAt > DateNow
                            THEN schedule(s, ReminderOf(task, reminderAt))
                            ELSE s
                    s2 == schedule(s1, StartOf(task, startAt))
                IN  schedule(s2, EndOf(task, endAt))

\* tasks.forEach((task) => this.scheduleTask(task))
RECURSIVE forEachScheduleTask(_, _)
forEachScheduleTask(s, tasks) ==
  IF tasks = <<>> THEN s
  ELSE forEachScheduleTask(scheduleTask(s, Head(tasks)), Tail(tasks))

TaskKey(key) ==
  startsWith(key, "start_") \/ startsWith(key, "end_")
    \/ startsWith(key, "reminder_")

\* scheduleAllTasks clearing every countdown, whatever its id.
scheduleAllTasksClearEvery(s, tasks) ==
  LET gone == DOMAIN s.timers
      s1 == [s EXCEPT
               !.host = {t \in @ : t.h \notin {s.timers[k] : k \in gone}},
               !.timers = [k \in DOMAIN @ \ gone |-> @[k]]]
  IN  forEachScheduleTask(s1, tasks)

\* scheduleAllTasks(tasks)
scheduleAllTasks(s, tasks) ==
  LET gone == {k \in DOMAIN s.timers : TaskKey(k)}
      s1 == [s EXCEPT
               !.host = {t \in @ : t.h \notin {s.timers[k] : k \in gone}},
               !.timers = [k \in DOMAIN @ \ gone |-> @[k]]]
  IN  forEachScheduleTask(s1, tasks)

\* stopNagNotifications leaving the recurring interval running.
stopNagNotificationsDelayOnly(s) ==
  IF s.nagStartTimer # Null
    THEN [s EXCEPT !.host = clearTimeout(@, Get(s.nagStartTimer)),
                   !.nagStartTimer = Null]
    ELSE s

\* stopNagNotifications()
stopNagNotifications(s) ==
  LET s1 == IF s.nagTimer # Null
              THEN [s EXCEPT !.host = clearTimeout(@, Get(s.nagTimer)),
                             !.nagTimer = Null]
              ELSE s
  IN  IF s1.nagStartTimer # Null
        THEN [s1 EXCEPT !.host = clearTimeout(@, Get(s1.nagStartTimer)),
                        !.nagStartTimer = Null]
        ELSE s1

\* The notification a nag timer carries: its body is the customMessage.
NagOf(msg) == [id |-> "nag", title |-> "from your habit partner", body |-> msg,
               tag |-> "nag", type |-> "nag"]

\* startNagNotifications arming the delay for NAG_INTERVAL_MIN minutes.
startNagNotificationsShortDelay(s, hasPermission, customMessage) ==
  IF ~hasPermission THEN s
  ELSE LET s1 == stopNagNotifications(s)
           h == NewHandle(s1, "nagStart")
       IN  [s1 EXCEPT !.nagStartTimer = Some(h),
                      !.host = @ \cup {[h |-> h, fn |-> "nagStart",
                                       n |-> NagOf(customMessage),
                                       due |-> NAG_INTERVAL_MIN]}]

\* startNagNotifications arming a new delay without stopping the old chain.
startNagNotificationsNoStop(s, hasPermission, customMessage) ==
  IF ~hasPermission THEN s
  ELSE LET h == NewHandle(s, "nagStart")
       IN  [s EXCEPT !.nagStartTimer = Some(h),
                     !.host = @ \cup {[h |-> h, fn |-> "nagStart",
                                      n |-> NagOf(customMessage),
                                      due |-> NAG_START_DELAY_MIN]}]

\* startNagNotifications(customMessage)
startNagNotifications(s, hasPermission, customMessage) ==
  IF ~hasPermission THEN s
  ELSE LET s1 == stopNagNotifications(s)
           h == NewHandle(s1, "nagStart")
       IN  [s1 EXCEPT !.nagStartTimer = Some(h),
                      !.host = @ \cup {[h |-> h, fn |-> "nagStart",
                                       n |-> NagOf(customMessage),
                                       due |-> NAG_START_DELAY_MIN]}]

\* clearAll leaving the nag chain alone.
clearAllKeepNag(s) ==
  [s EXCEPT
     !.host = {t \in @ : t.h \notin {s.timers[k] : k \in DOMAIN s.timers}},
     !.timers = EmptyMap,
     !.stored = Null]

\* clearAll()
clearAll(s) ==
  LET s1 == [s EXCEPT
               !.host = {t \in @ : t.h \notin {s.timers[k] : k \in DOMAIN s.timers}},
               !.timers = EmptyMap]
      s2 == stopNagNotifications(s1)
  IN  [s2 EXCEPT !.stored = Null]

\* fire delivering whatever the permission is.
fireUnchecked(hasPermission, n, sw) ==
  Some([title |-> n.title, body |-> n.body, tag |-> n.tag,
        requireInteraction |-> (n.type = "task_start" \/ n.type = "nag"),
        actions |-> IF ~sw THEN <<>>
                    ELSE IF n.type = "task_start" THEN <<"start", "snooze">>
                    ELSE IF n.type = "nag" THEN <<"open">>
                    ELSE <<>>,
        via |-> IF sw THEN "serviceWorker" ELSE "Notification",
        type |-> n.type])

\* fire(notification): what reaches the notification sink, Null when
\* permission is not granted.  sw: a service worker controls the page.
fire(hasPermission, n, sw) ==
  IF ~hasPermission THEN Null
  ELSE Some([title |-> n.title, body |-> n.body, tag |-> n.tag,
             requireInteraction |-> (n.type = "task_start" \/ n.type = "nag"),
             actions |-> IF ~sw THEN <<>>
                         ELSE IF n.type = "task_start" THEN <<"start", "snooze">>
                         ELSE IF n.type = "nag" THEN <<"open">>
                         ELSE <<>>,
             via |-> IF sw THEN "serviceWorker" ELSE "Notification",
             type |-> n.type])

\* sendNag delivering at every hour.
sendNagAnyHour(hasPermission, hour, customMessage, pick, sw) ==
  fire(hasPermission,
       NagOf(IF customMessage # "" THEN customMessage ELSE pick), sw)

\* sendNag(customMessage): nothing between 23:00 and 06:00, else one nag
\* with the custom message or the built-in message picked.
sendNag(hasPermission, hour, customMessage, pick, sw) ==
  IF hour >= 23 \/ hour < 6 THEN Null
  ELSE fire(hasPermission,
            NagOf(IF customMessage # "" THEN customMessage ELSE pick), sw)

(***************************************************************************)
(* The scheduler's steps.                                                  *)
(***************************************************************************)
hasPermission == permission

\* The live timers running one kind of callback, and the live countdowns
\* of one notification id.
Live(fn) == {t \in host : t.fn = fn}
Countdowns(id) == {t \in Live("countdown") : t.n.id = id}

\* The nag escalation: looping while the recurring interval is live, armed
\* while the nag-start delay is pending, idle otherwise.
NagState ==
  IF Live("nagInterval") # {} THEN "looping"
  ELSE IF Live("nagStart") # {} THEN "armed"
  ELSE "idle"

\* The ids in the stored list (none when the item is absent) and the ids
\* with a live countdown.
StoredIds(store) ==
  IF store[STORAGE_KEY] = Null THEN {} ELSE JSONparse(store[STORAGE_KEY])
PendingIds(hostTimers) == {t.n.id : t \in {c \in hostTimers : c.fn = "countdown"}}

InitSched ==
  /\ permission = FALSE
  /\ timers = EmptyMap
  /\ nagTimer = Null
  /\ nagStartTimer = Null
  /\ host = {}
  /\ latest = [id \in NotificationIds |-> Null]
  /\ sinceStart = -1
  /\ sinceNag = NAG_INTERVAL_MIN + 1
  /\ hidden = FALSE
  /\ pageHidden = FALSE
  /\ away = 0

\* The handler's result becomes the state.
Commit(s) ==
  /\ timers' = s.timers
  /\ nagTimer' = s.nagTimer
  /\ nagStartTimer' = s.nagStartTimer
  /\ host' = s.host
  /\ localStorage' = [localStorage EXCEPT ![STORAGE_KEY] = s.stored]

Armed(log) == {log[i] : i \in DOMAIN log}

\* latest after the schedule calls of log, in their order.
RECURSIVE ApplyLog(_, _)
ApplyLog(l, log) ==
  IF log = <<>> THEN l
  ELSE ApplyLog([l EXCEPT ![Head(log).n.id] = Some(Head(log).n)], Tail(log))

\* notificationScheduler.schedule(n)
Schedule(n) ==
  /\ \E s \in {schedule(Self, n)} :
         /\ Commit(s)
         /\ latest' = ApplyLog(latest, s.log)
         /\ ev' = [op |-> "schedule", n |-> n, armed |-> Armed(s.log),
                   replaced |-> (Countdowns(n.id) # {})]
  /\ UNCHANGED <<permission, sinceStart, sinceNag>>
  /\ UNCHANGED <<storeVars, recordVars, visVars>>

\* notificationScheduler.scheduleTask(task)
ScheduleTask(task) ==
  /\ \E s \in {scheduleTask(Self, task)} :
         /\ Commit(s)
         /\ latest' = ApplyLog(latest, s.log)
         /\ ev' = [op |-> "scheduleTask", task |-> task, armed |-> Armed(s.log)]
  /\ UNCHANGED <<permission, sinceStart, sinceNag>>
  /\ UNCHANGED <<storeVars, recordVars, visVars>>

\* notificationScheduler.scheduleAllTasks(tasks)
ScheduleAllTasks(tasks) ==
  /\ \E s \in {scheduleAllTasks(Self, tasks)} :
         /\ Commit(s)
         /\ latest' = ApplyLog([id \in NotificationIds |->
                                  IF TaskKey(id) THEN Null ELSE latest[id]],
                               s.log)
         /\ ev' = [op |-> "scheduleAllTasks", tasks |-> tasks,
                   armed |-> Armed(s.log),
                   cancelled |->
                     {c.n.id : c \in {t \in Live("countdown") :
                        t \notin s.host
                          \/ t.n.id \in {a.n.id : a \in Armed(s.log)}}}]
  /\ UNCHANGED <<permission, sinceStart, sinceNag>>
  /\ UNCHANGED <<storeVars, recordVars, visVars>>

\* notificationScheduler.clearAll()
ClearAll ==
  /\ \E s \in {clearAll(Self)} : Commit(s)
  /\ latest' = [id \in NotificationIds |-> Null]
  /\ sinceStart' = -1
  /\ ev' = [op |-> "clearAll", cancelled |-> PendingIds(host),
            before |-> NagState]
  /\ UNCHANGED <<permission, sinceNag>>
  /\ UNCHANGED <<storeVars, recordVars, visVars>>

\* notificationScheduler.startNagNotifications(customMessage)
StartNagNotifications(customMessage) ==
  /\ \E s \in {startNagNotifications(Self, hasPermission, customMessage)} :
        Commit(s)
  /\ sinceStart' = IF hasPermission THEN 0 ELSE sinceStart
  /\ ev' = [op |-> "startNagNotifications", granted |-> hasPermission,
            before |-> NagState]
  /\ UNCHANGED <<permission, latest, sinceNag>>
  /\ UNCHANGED <<storeVars, recordVars, visVars>>

\* notificationScheduler.stopNagNotifications()
StopNagNotifications ==
  /\ \E s \in {stopNagNotifications(Self)} : Commit(s)
  /\ sinceStart' = -1
  /\ ev' = [op |-> "stopNagNotifications", before |-> NagState]
  /\ UNCHANGED <<permission, latest, sinceNag>>
  /\ UNCHANGED <<storeVars, recordVars, visVars>>

\* notificationScheduler.updateActivity()
UpdateActivity ==
  /\ \E s \in {stopNagNotifications(Self)} : Commit(s)
  /\ sinceStart' = -1
  /\ ev' = [op |-> "updateActivity"]
  /\ UNCHANGED <<permission, latest, sinceNag>>
  /\ UNCHANGED <<storeVars, recordVars, visVars>>

\* The user or the browser grants or withdraws the notification permission.
PermissionChange ==
  /\ permission' = ~permission
  /\ ev' = [op |-> "permission"]
  /\ UNCHANGED <<timers, nagTimer, nagStartTimer, host, latest, sinceStart,
                 sinceNag, localStorage>>
  /\ UNCHANGED <<storeVars, recordVars, visVars>>

\* The callback schedule() gave to setTimeout runs: fire, delete, save.
CountdownExpire(t, sw) ==
  /\ t \in host /\ t.fn = "countdown" /\ t.due = 0
  /\ \E m \in {MapDelete(timers, t.n.id)} :
         /\ timers' = m
         /\ localStorage' = [localStorage EXCEPT
                               ![STORAGE_KEY] = JSONstringify(DOMAIN m)]
  /\ host' = host \ {t}
  /\ latest' = IF latest[t.n.id] = Some(t.n)
                 THEN [latest EXCEPT ![t.n.id] = Null] ELSE latest
  /\ ev' = [op |-> "expire", n |-> t.n, shown |-> fire(hasPermission, t.n, sw),
            wasLatest |-> (latest[t.n.id] = Some(t.n))]
  /\ UNCHANGED <<permission, nagTimer, nagStartTimer, sinceStart, sinceNag>>
  /\ UNCHANGED <<storeVars, recordVars, visVars>>

\* The callback startNagNotifications gave to setTimeout runs: one nag,
\* then the recurring interval is set.
NagStartExpire(t, hour, pick, sw) ==
  /\ t \in host /\ t.fn = "nagStart" /\ t.due = 0
  /\ \E h \in {NewHandle([Self EXCEPT !.host = host \ {t}], "nagInterval")} :
         /\ nagTimer' = Some(h)
         /\ host' = (host \ {t}) \cup {[h |-> h, fn |-> "nagInterval", n |-> t.n,
                                        due |-> NAG_INTERVAL_MIN]}
  /\ sinceNag' = 0
  /\ ev' = [op |-> "sendNag", from |-> "delay", hour |-> hour, gap |-> sinceNag,
            sinceStart |-> sinceStart,
            shown |-> sendNag(hasPermission, hour, t.n.body, pick, sw)]
  /\ UNCHANGED <<permission, timers, nagStartTimer, latest, sinceStart,
                 localStorage>>
  /\ UNCHANGED <<storeVars, recordVars, visVars>>

\* The callback given to setInterval runs: one nag, and the interval goes on.
NagIntervalExpire(t, hour, pick, sw) ==
  /\ t \in host /\ t.fn = "nagInterval" /\ t.due = 0
  /\ host' = (host \ {t}) \cup {[t EXCEPT !.due = NAG_INTERVAL_MIN]}
  /\ sinceNag' = 0
  /\ ev' = [op |-> "sendNag", from |-> "interval", hour |-> hour, gap |-> sinceNag,
            sinceStart |-> sinceStart,
            shown |-> sendNag(hasPermission, hour, t.n.body, pick, sw)]
  /\ UNCHANGED <<permission, timers, nagTimer, nagStartTimer, latest,
                 sinceStart, localStorage>>
  /\ UNCHANGED <<storeVars, recordVars, visVars>>

\* d minutes pass.  A timer that is due runs before any time passes, and
\* no timer's instant is passed over.
Elapse(d) ==
  /\ \A t \in host : t.due >= d
  /\ host' = {[t EXCEPT !.due = @ - d] : t \in host}
  /\ sinceStart' = IF sinceStart = -1 THEN -1
                   ELSE IF sinceStart + d < NAG_START_DELAY_MIN
                     THEN sinceStart + d
                   ELSE NAG_START_DELAY_MIN
  /\ sinceNag' = IF sinceNag + d <= NAG_INTERVAL_MIN THEN sinceNag + d
                 ELSE NAG_INTERVAL_MIN + 1
  /\ away' = IF ~hidden /\ ~pageHidden THEN 0
             ELSE IF away + d < NAG_START_DELAY_MIN THEN away + d
             ELSE NAG_START_DELAY_MIN
  /\ ev' = [op |-> "elapse"]
  /\ UNCHANGED <<permission, timers, nagTimer, nagStartTimer, latest,
                 localStorage, hidden, pageHidden>>
  /\ UNCHANGED <<storeVars, recordVars>>

\* The visibilitychange listener doing nothing when the document shows.
onVisibilityChangeStartOnly(s, granted, documentHidden) ==
  IF documentHidden THEN startNagNotifications(s, granted, "") ELSE s

\* The visibilitychange listener of setupVisibilityTracking; it starts the
\* nag without a custom message.
onVisibilityChange(s, granted, documentHidden) ==
  IF documentHidden THEN startNagNotifications(s, granted, "")
  ELSE stopNagNotifications(stopNagNotifications(s))

\* The application is in the foreground: the document shows and the page
\* has not been hidden since it was last shown.
Foreground == ~hidden /\ ~pageHidden

\* away after an event that leaves hidden and pageHidden as h and p.
awayAfter(h, p) == IF ~h /\ ~p THEN 0 ELSE away

\* visibilitychange is dispatched with document.hidden = documentHidden.
VisibilityChange(documentHidden) ==
  /\ \E s \in {onVisibilityChange(Self, hasPermission, documentHidden)} :
        Commit(s)
  /\ hidden' = documentHidden
  /\ away' = awayAfter(documentHidden, pageHidden)
  /\ sinceStart' = IF ~documentHidden THEN -1
                   ELSE IF hasPermission THEN 0 ELSE sinceStart
  /\ ev' = [op |-> "visibilitychange", hidden |-> documentHidden,
            before |-> NagState, away |-> away]
  /\ UNCHANGED <<permission, latest, sinceNag, pageHidden>>
  /\ UNCHANGED <<storeVars, recordVars>>

\* pagehide is dispatched: startNagNotifications().
PageHide ==
  /\ \E s \in {startNagNotifications(Self, hasPermission, "")} : Commit(s)
  /\ pageHidden' = TRUE
  /\ away' = awayAfter(hidden, TRUE)
  /\ sinceStart' = IF hasPermission THEN 0 ELSE sinceStart
  /\ ev' = [op |-> "pagehide", before |-> NagState, away |-> away]
  /\ UNCHANGED <<permission, latest, sinceNag, hidden>>
  /\ UNCHANGED <<storeVars, recordVars>>

\* pageshow is dispatched: stopNagNotifications().
PageShow ==
  /\ \E s \in {stopNagNotifications(Self)} : Commit(s)
  /\ pageHidden' = FALSE
  /\ away' = awayAfter(hidden, FALSE)
  /\ sinceStart' = -1
  /\ ev' = [op |-> "pageshow", before |-> NagState, away |-> away]
  /\ UNCHANGED <<permission, latest, sinceNag, hidden>>
  /\ UNCHANGED <<storeVars, recordVars>>

\* Minutes between two looks at the countdowns.
Tick == NAG_INTERVAL_MIN

\* The scheduler with the inputs of scheduleTask and scheduleAllTasks in
\* full, two notifications scheduled directly and one nag input; every
\* instant is whole ticks from now.
Next ==
  \/ \E n \in OtherNotifications : Schedule(n)
  \/ \E task \in Tasks : ScheduleTask(task)
  \/ \E tasks \in TaskLists : ScheduleAllTasks(tasks)
  \/ ClearAll
  \/ StartNagNotifications("")
  \/ StopNagNotifications
  \/ UpdateActivity
  \/ PermissionChange
  \/ \E t \in host, sw \in BOOLEAN : CountdownExpire(t, sw)
  \/ \E t \in host : NagStartExpire(t, 10, "m1", FALSE)
  \/ \E t \in host : NagIntervalExpire(t, 10, "m1", FALSE)
  \/ Elapse(Tick)

\* The scheduler with the inputs of schedule in full, two tasks that differ
\* in start and duration, and one nag input; every instant is whole ticks
\* from now.
NextCountdown ==
  \/ \E n \in DirectNotifications : Schedule(n)
  \/ \E task \in {Task(Some(5), 5), Task(Some(10), 10)} : ScheduleTask(task)
  \/ ScheduleAllTasks(<<>>)
  \/ ClearAll
  \/ StartNagNotifications("")
  \/ StopNagNotifications
  \/ UpdateActivity
  \/ PermissionChange
  \/ \E t \in host, sw \in BOOLEAN : CountdownExpire(t, sw)
  \/ \E t \in host : NagStartExpire(t, 10, "m1", FALSE)
  \/ \E t \in host : NagIntervalExpire(t, 10, "m1", FALSE)
  \/ Elapse(Tick)

\* The scheduler with the nag chain's inputs in full and one countdown.
NextNag ==
  \/ Schedule(Direct("nag_1", "x", 1))
  \/ \E task \in {Task(Null, 1), Task(Some(0), 1)} : ScheduleTask(task)
  \/ ScheduleAllTasks(<<>>)
  \/ ClearAll
  \/ \E m \in NagMessages : StartNagNotifications(m)
  \/ StopNagNotifications
  \/ UpdateActivity
  \/ PermissionChange
  \/ \E t \in host, sw \in BOOLEAN : CountdownExpire(t, sw)
  \/ \E t \in host, hour \in Hours, pick \in NagCatalog, sw \in BOOLEAN :
        NagStartExpire(t, hour, pick, sw)
  \/ \E t \in host, hour \in Hours, pick \in NagCatalog, sw \in BOOLEAN :
        NagIntervalExpire(t, hour, pick, sw)
  \/ Elapse(1)

(***************************************************************************)
(* lib/dataStore.ts: the record helpers.  They are pure functions of the   *)
(* record and of the clock; here the record is the part they read and      *)
(* write (sessions and stats).  An instant is a whole number of half days  *)
(* since some UTC midnight, and a date is the number of its UTC day, as    *)
(* toISOString().split("T")[0] names it.  One call reads the clock at one  *)
(* instant.                                                                *)
(***************************************************************************)
MAX_SESSIONS == 30
TODAY_MESSAGES == 20
MS_PER_DAY == 2

\* The last instant of the conversations and of the study calendar, and
\* how many calls may change the record.
MaxInstant == 2
MaxStudyInstant == 7
MaxCalls == 3

Sources == {"web", "line"}
\* The messages a caller appends; content names the text.
Messages == {[role |-> "user", content |-> 0],
             [role |-> "assistant", content |-> 1]}
Categories == {"study", "math"}
Minutes == {25}

\* new Date(at).toISOString().split("T")[0]
toISODate(at) == at \div MS_PER_DAY

\* timestamp.startsWith(date), for the ISO timestamp of an instant
timestampStartsWith(timestamp, date) == toISODate(timestamp) = date

\* seq.slice(-n)
slice(seq, n) ==
  IF Len(seq) <= n THEN seq ELSE SubSeq(seq, Len(seq) - n + 1, Len(seq))

\* sessions.findIndex(s => s.timestamp.startsWith(today) && s.source ===
\* source), counted from 1; 0 when there is none.
findIndex(sessions, today, source) ==
  LET found == {i \in DOMAIN sessions :
                  /\ timestampStartsWith(sessions[i].timestamp, today)
                  /\ sessions[i].source = source}
  IN  IF found = {} THEN 0
      ELSE CHOOSE i \in found : \A j \in found : i <= j

\* findIndex looking at the date alone.
findIndexAnySource(sessions, today, source) ==
  LET found == {i \in DOMAIN sessions :
                  timestampStartsWith(sessions[i].timestamp, today)}
  IN  IF found = {} THEN 0
      ELSE CHOOSE i \in found : \A j \in found : i <= j

\* createDefaultUserData(userId)
createDefaultUserData(userId, at) ==
  [userId |-> userId,
   schedule |-> [today |-> <<>>, weekly |-> EmptyMap],
   sessions |-> <<>>,
   stats |-> [studyMinutes |-> EmptyMap, streaks |-> 0,
              lastActiveDate |-> toISODate(at), categories |-> EmptyMap],
   timer |-> [taskId |-> Null, taskTitle |-> Null, startedAt |-> Null,
              duration |-> 25, phase |-> "work", isRunning |-> FALSE]]

\* addStudyTime counting every call as one more day of the streak.
addStudyTimeAlwaysCounts(data, minutes, category, at) ==
  [data EXCEPT !.stats.streaks = @ + 1,
               !.stats.lastActiveDate = toISODate(at)]

\* addStudyTime(data, minutes, category)
addStudyTime(data, minutes, category, at) ==
  LET today == toISODate(at)
      yesterday == toISODate(at - MS_PER_DAY)
      st == data.stats
      studyMinutes ==
        MapSet(st.studyMinutes, today,
               (IF today \in DOMAIN st.studyMinutes
                  THEN st.studyMinutes[today] ELSE 0) + minutes)
      cat == IF category \in DOMAIN st.categories THEN st.categories[category]
             ELSE [totalMinutes |-> 0, sessions |-> 0]
      categories ==
        MapSet(st.categories, category,
               [totalMinutes |-> cat.totalMinutes + minutes,
                sessions |-> cat.sessions + 1])
      streaks == IF st.lastActiveDate = yesterday THEN st.streaks + 1
                 ELSE IF st.lastActiveDate # today THEN 1
                 ELSE st.streaks
  IN  [data EXCEPT !.stats = [studyMinutes |-> studyMinutes,
                              streaks |-> streaks,
                              lastActiveDate |-> today,
                              categories |-> categories]]

\* appendMessage keeping every session.
appendMessageKeepAll(data, message, source, at) ==
  LET today == toISODate(at)
      idx == findIndex(data.sessions, today, source)
  IN  [data EXCEPT !.sessions =
         IF idx > 0 THEN [@ EXCEPT ![idx].messages = Append(@, message)]
         ELSE Append(@, [id |-> at, timestamp |-> at, source |-> source,
                         messages |-> <<message>>])]

\* appendMessage finding today's session whatever its source.
appendMessageAnySource(data, message, source, at) ==
  LET today == toISODate(at)
      idx == findIndexAnySource(data.sessions, today, source)
      sessions ==
        IF idx > 0
          THEN [data.sessions EXCEPT ![idx].messages = Append(@, message)]
        ELSE Append(data.sessions,
                    [id |-> at, timestamp |-> at, source |-> source,
                     messages |-> <<message>>])
  IN  [data EXCEPT !.sessions = slice(sessions, MAX_SESSIONS)]

\* appendMessage(data, message, source); the session id sess_${Date.now()}
\* is the instant.
appendMessage(data, message, source, at) ==
  LET today == toISODate(at)
      idx == findIndex(data.sessions, today, source)
      sessions ==
        IF idx > 0
          THEN [data.sessions EXCEPT ![idx].messages = Append(@, message)]
        ELSE Append(data.sessions,
                    [id |-> at, timestamp |-> at, source |-> source,
                     messages |-> <<message>>])
  IN  [data EXCEPT !.sessions = slice(sessions, MAX_SESSIONS)]

\* sessions.flatMap(s => s.messages)
RECURSIVE flatMapMessages(_)
flatMapMessages(sessions) ==
  IF sessions = <<>> THEN <<>>
  ELSE Head(sessions).messages \o flatMapMessages(Tail(sessions))

\* getTodayMessages(data)
getTodayMessages(data, at) ==
  LET today == toISODate(at)
  IN  slice(flatMapMessages(
              SelectSeq(data.sessions,
                        LAMBDA s : timestampStartsWith(s.timestamp, today))),
            TODAY_MESSAGES)

\* One appendMessage call on the record and on the two histories of it.
Appending(r, message, source, at) ==
  [data |-> appendMessage(r.data, message, source, at),
   appended |-> Append(r.appended,
                       [date |-> toISODate(at), source |-> source,
                        message |-> message]),
   created |-> IF findIndex(r.data.sessions, toISODate(at), source) = 0
                 THEN Append(r.created, [timestamp |-> at, source |-> source])
               ELSE r.created]

\* The records the conversations start from: a record created before any
\* of it, then one message on each of k earlier days and m messages
\* earlier today, the sources taking turns.
PriorRecords == {<<0, 0>>, <<MAX_SESSIONS - 1, 0>>, <<MAX_SESSIONS, 0>>,
                 <<0, TODAY_MESSAGES - 1>>, <<0, TODAY_MESSAGES>>}

PriorCall(k, i) ==
  [message |-> [role |-> IF i % 2 = 1 THEN "user" ELSE "assistant",
                content |-> i + 1],
   source |-> IF i % 2 = 1 THEN "web" ELSE "line",
   at |-> IF i <= k THEN (i - k - 1) * MS_PER_DAY ELSE 0]

RECURSIVE Prior(_, _, _)
Prior(k, m, i) ==
  IF i = 0
    THEN [data |-> createDefaultUserData("u1", (0 - k - 1) * MS_PER_DAY),
          appended |-> <<>>, created |-> <<>>]
  ELSE LET c == PriorCall(k, i)
       IN  Appending(Prior(k, m, i - 1), c.message, c.source, c.at)

(***************************************************************************)
(* The record as the objects the helpers work on.  An object is a function *)
(* from its keys (field names, or 1..n for an array) to fields; a field    *)
(* holds a value or the address of another object.  Objects are never      *)
(* freed, so an address names one object for good.  Messages and the       *)
(* timer's fields are values: no helper writes into them.                  *)
(***************************************************************************)
Ref(a) == [ref |-> a]
Val(v) == [val |-> v]
isRef(e) == "ref" \in DOMAIN e
ValNode(rec) == [k \in DOMAIN rec |-> Val(rec[k])]

\* A new object, and an assignment into an object.
alloc(h, node) == [heap |-> Append(h, node), at |-> Len(h) + 1]
write(h, a, node) == [h EXCEPT ![a] = node]

\* The value an object stands for.
RECURSIVE Deref(_, _)
Deref(h, a) ==
  [k \in DOMAIN h[a] |-> IF isRef(h[a][k]) THEN Deref(h, h[a][k].ref)
                         ELSE h[a][k].val]

\* structuredClone handing back its argument.
structuredCloneSame(h, a) == [heap |-> h, at |-> a]

\* structuredClone(value): a copy of the object and of every object under
\* it.
RECURSIVE structuredClone(_, _)
RECURSIVE cloneFields(_, _, _)
structuredClone(h, a) ==
  LET c == cloneFields(h, h[a], DOMAIN h[a])
  IN  alloc(c.heap, c.node)
cloneFields(h, node, keys) ==
  IF keys = {} THEN [heap |-> h, node |-> node]
  ELSE LET k == CHOOSE x \in keys : TRUE
       IN  IF isRef(node[k])
             THEN LET c == structuredClone(h, node[k].ref)
                  IN  cloneFields(c.heap, [node EXCEPT ![k] = Ref(c.at)],
                                  keys \ {k})
           ELSE cloneFields(h, node, keys \ {k})

\* createDefaultUserData(userId), object by object
createDefaultUserDataRef(h, userId, at) ==
  LET today == alloc(h, <<>>)
      scheduleObj == alloc(today.heap, [today |-> Ref(today.at),
                                     weekly |-> Val(EmptyMap)])
      sessions == alloc(scheduleObj.heap, <<>>)
      studyMinutes == alloc(sessions.heap, <<>>)
      categories == alloc(studyMinutes.heap, <<>>)
      stats == alloc(categories.heap,
                     [studyMinutes |-> Ref(studyMinutes.at),
                      streaks |-> Val(0),
                      lastActiveDate |-> Val(toISODate(at)),
                      categories |-> Ref(categories.at)])
      timer == alloc(stats.heap,
                     ValNode(createDefaultUserData(userId, at).timer))
  IN  alloc(timer.heap,
            [userId |-> Val(userId), schedule |-> Ref(scheduleObj.at),
             sessions |-> Ref(sessions.at), stats |-> Ref(stats.at),
             timer |-> Ref(timer.at)])

\* addTask: { ...data, schedule: { ...data.schedule, today: [...today,
\* newTask] } }
addTaskRef(h, d, task, at) ==
  LET scheduleObj == h[h[d].schedule.ref]
      newTask == alloc(h, ValNode([id |-> at, title |-> task.title,
                                   category |-> task.category,
                                   startTime |-> task.startTime,
                                   duration |-> task.duration,
                                   status |-> task.status, createdAt |-> at]))
      today == alloc(newTask.heap,
                     Append(h[scheduleObj.today.ref], Ref(newTask.at)))
      sched == alloc(today.heap, [scheduleObj EXCEPT !.today = Ref(today.at)])
  IN  alloc(sched.heap, [h[d] EXCEPT !.schedule = Ref(sched.at)])

\* today.map(t => t.id === taskId ? { ...t, status: "done" } : t)
RECURSIVE mapDone(_, _, _, _, _)
mapDone(h, arr, i, acc, taskId) ==
  IF i > Len(arr) THEN [heap |-> h, node |-> acc]
  ELSE IF h[arr[i].ref].id.val = taskId
    THEN LET t == alloc(h, [h[arr[i].ref] EXCEPT !.status = Val("done")])
         IN  mapDone(t.heap, arr, i + 1, Append(acc, Ref(t.at)), taskId)
  ELSE mapDone(h, arr, i + 1, Append(acc, arr[i]), taskId)

\* completeTask, object by object
completeTaskRef(h, d, taskId) ==
  LET scheduleObj == h[h[d].schedule.ref]
      mapped == mapDone(h, h[scheduleObj.today.ref], 1, <<>>, taskId)
      today == alloc(mapped.heap, mapped.node)
      sched == alloc(today.heap, [scheduleObj EXCEPT !.today = Ref(today.at)])
  IN  alloc(sched.heap, [h[d] EXCEPT !.schedule = Ref(sched.at)])

\* addStudyTime, object by object: the clone is written in place and
\* returned.
addStudyTimeRef(h, d, minutes, category, at) ==
  LET today == toISODate(at)
      yesterday == toISODate(at - MS_PER_DAY)
      updated == structuredClone(h, d)
      stats == updated.heap[updated.at].stats.ref
      studyMinutes == updated.heap[stats].studyMinutes.ref
      categories == updated.heap[stats].categories.ref
      h1 == write(updated.heap, studyMinutes,
                  MapSet(updated.heap[studyMinutes], today,
                         Val((IF today \in DOMAIN updated.heap[studyMinutes]
                                THEN updated.heap[studyMinutes][today].val
                              ELSE 0) + minutes)))
      h2 == IF category \in DOMAIN h1[categories] THEN h1
            ELSE LET e == alloc(h1, [totalMinutes |-> Val(0),
                                     sessions |-> Val(0)])
                 IN  write(e.heap, categories,
                           MapSet(e.heap[categories], category, Ref(e.at)))
      entry == h2[categories][category].ref
      h3 == write(h2, entry,
                  [totalMinutes |-> Val(h2[entry].totalMinutes.val + minutes),
                   sessions |-> Val(h2[entry].sessions.val + 1)])
      st == h3[stats]
      h4 == write(h3, stats,
                  [st EXCEPT
                     !.streaks =
                        Val(IF st.lastActiveDate.val = yesterday
                              THEN st.streaks.val + 1
                            ELSE IF st.lastActiveDate.val # today THEN 1
                            ELSE st.streaks.val),
                     !.lastActiveDate = Val(today)])
  IN  [heap |-> h4, at |-> updated.at]

\* appendMessage, object by object: the cloned sessions array is written
\* in place, then sliced into the new record.
appendMessageRef(h, d, message, source, at) ==
  LET today == toISODate(at)
      sessions == structuredClone(h, h[d].sessions.ref)
      arr == sessions.heap[sessions.at]
      found == {i \in DOMAIN arr :
                  /\ timestampStartsWith(
                       sessions.heap[arr[i].ref].timestamp.val, today)
                  /\ sessions.heap[arr[i].ref].source.val = source}
      idx == IF found = {} THEN 0
             ELSE CHOOSE i \in found : \A j \in found : i <= j
      pushed ==
        IF idx > 0
          THEN LET messages == sessions.heap[arr[idx].ref].messages.ref
               IN  write(sessions.heap, messages,
                         Append(sessions.heap[messages], Val(message)))
        ELSE LET messages == alloc(sessions.heap, <<Val(message)>>)
                 session == alloc(messages.heap,
                                  [id |-> Val(at), timestamp |-> Val(at),
                                   source |-> Val(source),
                                   messages |-> Ref(messages.at)])
             IN  write(session.heap, sessions.at,
                       Append(arr, Ref(session.at)))
      sliced == alloc(pushed, slice(pushed[sessions.at], MAX_SESSIONS))
  IN  alloc(sliced.heap, [h[d] EXCEPT !.sessions = Ref(sliced.at)])

\* The objects of a new record.
InitHeap ==
  \E r \in {createDefaultUserDataRef(<<>>, "u1", 0)} :
     heap = r.heap /\ root = r.at

\* A new record, no helper called yet.
InitRecord ==
  /\ userData = createDefaultUserData("u1", 0)
  /\ wallClock = 0
  /\ calls = 0
  /\ appended = <<>>
  /\ created = <<>>
  /\ activeDays = {}
  /\ InitHeap

InitSessions ==
  /\ \E p \in PriorRecords :
       \E r \in {Prior(p[1], p[2], p[1] + p[2])} :
          /\ userData = r.data
          /\ appended = r.appended
          /\ created = r.created
  /\ wallClock = 0
  /\ calls = 0
  /\ activeDays = {}
  /\ InitHeap

\* appendMessage(data, message, source), the caller keeping the result
AppendMessage(message, source) ==
  /\ calls < MaxCalls
  /\ \E r \in {Appending([data |-> userData, appended |-> appended,
                          created |-> created], message, source, wallClock)} :
         /\ userData' = r.data
         /\ appended' = r.appended
         /\ created' = r.created
  /\ calls' = calls + 1
  /\ ev' = [op |-> "appendMessage", message |-> message, source |-> source,
            idx |-> findIndex(userData.sessions, toISODate(wallClock), source),
            before |-> Len(userData.sessions)]
  /\ UNCHANGED <<wallClock, activeDays, localStorage, storeVars, schedVars, heapVars>>

\* getTodayMessages(data)
GetTodayMessages ==
  /\ ev' = [op |-> "getTodayMessages",
            result |-> getTodayMessages(userData, wallClock)]
  /\ UNCHANGED <<recordVars, localStorage, storeVars, schedVars>>

\* addStudyTime(data, minutes, category), the caller keeping the result
AddStudyTime(minutes, category) ==
  /\ calls < MaxCalls
  /\ userData' = addStudyTime(userData, minutes, category, wallClock)
  /\ activeDays' = activeDays \cup {toISODate(wallClock)}
  /\ calls' = calls + 1
  /\ ev' = [op |-> "addStudyTime", minutes |-> minutes, category |-> category,
            before |-> [streaks |-> userData.stats.streaks,
                        lastActiveDate |-> userData.stats.lastActiveDate]]
  /\ UNCHANGED <<wallClock, appended, created, localStorage, storeVars,
                 schedVars, heapVars>>

\* Half a day passes.
Advance(last) ==
  /\ wallClock < last
  /\ wallClock' = wallClock + 1
  /\ ev' = [op |-> "advance"]
  /\ UNCHANGED <<userData, calls, appended, created, activeDays, localStorage,
                 storeVars, schedVars, heapVars>>

\* addTask(data, task); the id task_${Date.now()} and createdAt are the
\* instant.
addTask(data, task, at) ==
  [data EXCEPT !.schedule.today =
     Append(@, [id |-> at, title |-> task.title, category |-> task.category,
                startTime |-> task.startTime, duration |-> task.duration,
                status |-> task.status, createdAt |-> at])]

\* completeTask taking the completed task off the list.
completeTaskDropDone(data, taskId) ==
  [data EXCEPT !.schedule.today = SelectSeq(@, LAMBDA t : t.id # taskId)]

\* completeTask(data, taskId)
completeTask(data, taskId) ==
  [data EXCEPT !.schedule.today =
     [i \in DOMAIN @ |-> IF @[i].id = taskId
                           THEN [@[i] EXCEPT !.status = "done"]
                         ELSE @[i]]]

(***************************************************************************)
(* app/api/chat/route.ts: one chat turn on the record.  The reply of the   *)
(* model-calling collaborator is an input: its text and its optional       *)
(* action, whose fields may each be absent.                                *)
(***************************************************************************)
\* v || d for a number and for a string that may be absent
numberOr(o, d) == IF o = Null \/ Get(o) = 0 THEN d ELSE Get(o)
stringOr(o, d) == IF o = Null \/ Get(o) = "" THEN d ELSE Get(o)

ChatAction(name, d) == [action |-> name, data |-> d]
TimerData(id, title, dur, ph) ==
  [taskId |-> id, taskTitle |-> title, duration |-> dur, phase |-> ph]

\* The actions a reply may carry: none, each of the four with data, one
\* with its data missing, and one the handler does not know.
ChatActions ==
  {Null,
   Some(ChatAction("add_task",
                   Some([title |-> "T", category |-> Null, duration |-> Null,
                         startTime |-> Null]))),
   Some(ChatAction("complete_task",
                   Some([taskId |-> 0, minutes |-> Null, category |-> Null]))),
   Some(ChatAction("start_timer",
                   Some(TimerData(Some(0), Some("T"), Some(50), Some("break"))))),
   Some(ChatAction("start_timer", Some(TimerData(Null, Null, Null, Null)))),
   Some(ChatAction("start_timer", Null)),
   Some(ChatAction("stop_timer", Null)),
   Some(ChatAction("update_schedule", Null))}

\* Reading a field of action.data throws when there is no data.
actionThrows(action) ==
  /\ action # Null
  /\ Get(action).action \in {"add_task", "complete_task", "start_timer"}
  /\ Get(action).data = Null

\* The switch on action.action with start_timer keeping the old startedAt.
applyActionKeepStamp(data, action, at) ==
  IF action = Null THEN data
  ELSE LET a == Get(action)
       IN  IF a.action = "start_timer"
             THEN [data EXCEPT !.timer.isRunning = TRUE]
           ELSE IF a.action = "stop_timer"
             THEN [data EXCEPT !.timer.isRunning = FALSE]
           ELSE data

\* if (action) switch (action.action) { ... }, for an action that does
\* not throw
applyAction(data, action, at) ==
  IF action = Null THEN data
  ELSE LET a == Get(action)
       IN  CASE a.action = "add_task" ->
                  addTask(data,
                          [title |-> Get(a.data).title,
                           category |-> stringOr(Get(a.data).category, "study"),
                           duration |-> numberOr(Get(a.data).duration, 25),
                           startTime |-> Get(a.data).startTime,
                           status |-> "pending"], at)
             [] a.action = "complete_task" ->
                  addStudyTime(completeTask(data, Get(a.data).taskId),
                               numberOr(Get(a.data).minutes, 25),
                               stringOr(Get(a.data).category, "study"), at)
             [] a.action = "start_timer" ->
                  [data EXCEPT !.timer =
                     [taskId |-> Get(a.data).taskId,
                      taskTitle |-> Get(a.data).taskTitle,
                      startedAt |-> Some(at),
                      duration |-> numberOr(Get(a.data).duration, 25),
                      phase |-> stringOr(Get(a.data).phase, "work"),
                      isRunning |-> TRUE]]
             [] a.action = "stop_timer" ->
                  [data EXCEPT !.timer.isRunning = FALSE]
             [] OTHER -> data

\* POST of /api/chat on the record it loaded: the user's message is
\* appended, the reply's action applied, the reply appended.
chatTurn(r, message, source, text, action, at) ==
  LET r1 == Appending(r, [role |-> "user", content |-> message], source, at)
      r2 == [r1 EXCEPT !.data = applyAction(@, action, at)]
  IN  Appending(r2, [role |-> "assistant", content |-> text], source, at)

\* One POST.  The record of the next turn is the one this turn saved; a
\* turn that throws (answered with status 500) or whose save fails leaves
\* the record of the turn before.
ChatTurn(source, action, outcome) ==
  /\ calls < MaxCalls
  /\ outcome = "threw" \/ ~actionThrows(action)
  /\ \E r \in {IF outcome = "saved"
                 THEN chatTurn([data |-> userData, appended |-> appended,
                                created |-> created], 0, source, 1, action,
                               wallClock)
               ELSE [data |-> userData, appended |-> appended,
                     created |-> created]} :
         /\ userData' = r.data
         /\ appended' = r.appended
         /\ created' = r.created
  /\ activeDays' =
       IF /\ outcome = "saved" /\ action # Null
          /\ Get(action).action = "complete_task"
         THEN activeDays \cup {toISODate(wallClock)}
       ELSE activeDays
  /\ calls' = calls + 1
  /\ ev' = [op |-> "chatTurn", action |-> action, outcome |-> outcome,
            timer |-> userData.timer]
  /\ UNCHANGED <<wallClock, localStorage, storeVars, schedVars, heapVars>>

\* addTask(data, task), the caller keeping the result
AddTask(task) ==
  /\ calls < MaxCalls
  /\ userData' = addTask(userData, task, wallClock)
  /\ calls' = calls + 1
  /\ ev' = [op |-> "addTask", task |-> task,
            before |-> userData.schedule.today]
  /\ UNCHANGED <<wallClock, appended, created, activeDays, localStorage,
                 storeVars, schedVars, heapVars>>

\* completeTask(data, taskId), the caller keeping the result
CompleteTask(taskId) ==
  /\ calls < MaxCalls
  /\ userData' = completeTask(userData, taskId)
  /\ calls' = calls + 1
  /\ ev' = [op |-> "completeTask", taskId |-> taskId,
            before |-> userData.schedule.today]
  /\ UNCHANGED <<wallClock, appended, created, activeDays, localStorage,
                 storeVars, schedVars, heapVars>>

\* The tasks a caller adds.
NewTasks ==
  {[title |-> "T", category |-> "study", startTime |-> Null, duration |-> 25,
    status |-> "pending"],
   [title |-> "U", category |-> "hobby", startTime |-> Some(5), duration |-> 50,
    status |-> "active"]}

\* A helper called on the objects of the caller's record; the caller
\* keeps what it returns.  to: the objects after the call and the address
\* returned.
HelperCall(name, args, to) ==
  /\ calls < MaxCalls
  /\ heap' = to.heap
  /\ root' = to.at
  /\ userData' = Deref(to.heap, to.at)
  /\ calls' = calls + 1
  /\ ev' = [op |-> name, args |-> args, passed |-> root]
  /\ UNCHANGED <<wallClock, appended, created, activeDays, localStorage,
                 storeVars, schedVars>>

AddTaskRef(task) ==
  \E to \in {addTaskRef(heap, root, task, wallClock)} :
     HelperCall("addTask", <<task>>, to)

CompleteTaskRef(taskId) ==
  \E to \in {completeTaskRef(heap, root, taskId)} :
     HelperCall("completeTask", <<taskId>>, to)

AddStudyTimeRef(minutes, category) ==
  \E to \in {addStudyTimeRef(heap, root, minutes, category, wallClock)} :
     HelperCall("addStudyTime", <<minutes, category>>, to)

AppendMessageRef(message, source) ==
  \E to \in {appendMessageRef(heap, root, message, source, wallClock)} :
     HelperCall("appendMessage", <<message, source>>, to)

\* The four helpers on the objects of one record, over two days.
NextHeap ==
  \/ \E task \in NewTasks : AddTaskRef(task)
  \/ \E taskId \in {-1, 0} : CompleteTaskRef(taskId)
  \/ \E category \in Categories : AddStudyTimeRef(25, category)
  \/ \E source \in Sources : AppendMessageRef([role |-> "user", content |-> 0],
                                              source)
  \/ Advance(MaxInstant)

\* The chat turns of two days.
NextChat ==
  \/ \E action \in ChatActions, outcome \in {"saved", "unsaved", "threw"} :
        ChatTurn("web", action, outcome)
  \/ Advance(MaxInstant)

\* The task list of two days.
NextTasks ==
  \/ \E task \in NewTasks : AddTask(task)
  \/ \E taskId \in -1..MaxInstant : CompleteTask(taskId)
  \/ Advance(MaxInstant)

\* The conversations of two days.
NextSessions ==
  \/ \E message \in Messages, source \in Sources :
        AppendMessage(message, source)
  \/ GetTodayMessages
  \/ Advance(MaxInstant)

\* The study calendar of a few days.
NextStats ==
  \/ \E minutes \in Minutes, category \in Categories :
        AddStudyTime(minutes, category)
  \/ Advance(MaxStudyInstant)

\* The scheduler driven by the listeners of setupVisibilityTracking alone,
\* minute by minute.
NextVisibility ==
  \/ \E documentHidden \in BOOLEAN : VisibilityChange(documentHidden)
  \/ PageHide
  \/ PageShow
  \/ PermissionChange
  \/ \E t \in host, hour \in {10, 23} : NagStartExpire(t, hour, "m1", FALSE)
  \/ \E t \in host, hour \in {10, 23} : NagIntervalExpire(t, hour, "m1", FALSE)
  \/ Elapse(1)

vars == <<localStorage, ev, storeVars, schedVars, recordVars>>

\* The sync layer, with or without a service URL; the scheduler stays idle.
InitSync == urlConfigured \in BOOLEAN /\ InitStore /\ InitSched /\ InitRecord

SpecStore == InitSync /\ [][NextStore]_vars

\* The scheduler; the sync layer stays idle.
Init == urlConfigured = TRUE /\ InitStore /\ InitSched /\ InitRecord

Spec == Init /\ [][Next]_vars

SpecNag == Init /\ [][NextNag]_vars

SpecCountdown == Init /\ [][NextCountdown]_vars

SpecVisibility == Init /\ [][NextVisibility]_vars

\* The record helpers; the sync layer and the scheduler stay idle.
InitConversations ==
  urlConfigured = TRUE /\ InitStore /\ InitSched /\ InitSessions

SpecSessions == InitConversations /\ [][NextSessions]_vars

SpecStats == Init /\ [][NextStats]_vars

SpecChat == Init /\ [][NextChat]_vars

SpecTasks == Init /\ [][NextTasks]_vars

SpecHeap == Init /\ [][NextHeap]_vars

(***************************************************************************)
(* Properties of the sync layer (checked under SpecStore).                 *)
(***************************************************************************)
CacheEntry(u) == readCache(localStorage, u)

\* C1 as stated: whenever getUserData's fetch yields a record R, the call
\* returns R and the cache entry of that user is R afterwards.
C1_AsStated ==
  (ev.op = "getUserData" /\ ev.fetched # Null) =>
     /\ ev.value = ev.fetched
     /\ CacheEntry(ev.userId) = ev.fetched

\* C1: whenever getUserData's fetch yields a record R, the call returns R
\* without raising, and the cache entry of that user is R afterwards when
\* the storage write went through; when setItem threw, the entry is what it
\* was before the call.
C1_RemoteWins ==
  (ev.op = "getUserData" /\ ev.fetched # Null) =>
     /\ ~ev.raised
     /\ ev.value = ev.fetched
     /\ CacheEntry(ev.userId) = IF ev.setItemOk THEN ev.fetched ELSE ev.cacheBefore

\* A fetched record replaced a different cache entry that saveUserData had
\* written and the service never held.
C1_Witness ==
  /\ ev.op = "getUserData" /\ ev.fetched # Null /\ ev.setItemOk
  /\ ev.cacheBefore # Null /\ ev.cacheBefore # ev.fetched
  /\ ev.cacheBefore = lastLocal[ev.userId]
  /\ Get(ev.cacheBefore) \notin remoteHist[ev.userId]
  /\ CacheEntry(ev.userId) = ev.fetched

\* C2 as stated: when the fetch fails, getUserData does not raise, returns
\* the cache entry if there is one, leaves the cache alone, and returns null
\* only when neither the service nor the cache holds a record of the user.
C2_AsStated ==
  (ev.op = "getUserData" /\ ev.fetched = Null) =>
     /\ ~ev.raised
     /\ ev.cacheBefore # Null => ev.value = ev.cacheBefore
     /\ CacheEntry(ev.userId) = ev.cacheBefore
     /\ ev.value = Null => (remote[ev.userId] = Null /\ ev.cacheBefore = Null)

\* C2: when the fetch yields no record (no service URL, network error,
\* timeout, non-2xx), getUserData does not raise, returns the cache entry
\* if there is one, leaves the cache alone, and returns null exactly when
\* the cache holds no entry for the user, whatever the service holds.
C2_Fallback ==
  (ev.op = "getUserData" /\ ev.fetched = Null) =>
     /\ ~ev.raised
     /\ ev.value = ev.cacheBefore
     /\ CacheEntry(ev.userId) = ev.cacheBefore

\* The fetch failed on an exception and the cache entry was returned.
C2_Witness ==
  /\ ev.op = "getUserData" /\ ev.fetched = Null
  /\ urlConfigured /\ ev.net \in {"timeout", "neterr", "500"}
  /\ ev.cacheBefore # Null /\ ev.value = ev.cacheBefore

\* C3 as stated: the cache entry is d before the remote write is attempted
\* and whatever its outcome; exactly one remote write is attempted;
\* saveUserData returns true iff the service took the write; and when it
\* returns false the cache holds d and the service's record is unchanged.
C3_AsStated ==
  /\ pc = "saving" =>
       CacheEntry(Get(pending).data.userId) = Some(Get(pending).data)
  /\ ev.op = "saveUserData" =>
       /\ CacheEntry(ev.data.userId) = Some(ev.data)
       /\ ev.posts = 1
       /\ ev.ok <=> (remote[ev.data.userId] = Some(ev.data)
                       /\ ev.net \in {"200", "timeout"})
       /\ ~ev.ok => remote[ev.data.userId] = ev.remoteBefore

\* C3: saveUserData stamps updatedAt and, before any remote write, writes
\* d to the cache, which then holds d whatever the remote outcome, unless
\* setItem threw (then the entry is what it was); one remote write is attempted when a
\* service URL is configured and none otherwise, never a second one; the
\* call does not raise; it returns true exactly when that write was
\* answered 2xx, and then the service holds d; when it returns false the
\* service's record is unchanged, except after a timeout, when the service
\* may hold d.
C3_Save ==
  /\ pc = "saving" =>
       /\ ev.op \in {"saveBegin", "otherDevice", "clock"}
       /\ CacheEntry(Get(pending).data.userId) =
            IF Get(pending).setItemOk THEN Some(Get(pending).data)
            ELSE Get(pending).cacheBefore
  /\ ev.op = "saveBegin" =>
       /\ pc = "saving" /\ Get(pending).data = ev.data
       /\ ev.data.updatedAt = clock
  /\ ev.op = "saveUserData" =>
       /\ ~ev.raised
       /\ CacheEntry(ev.data.userId) =
            IF ev.setItemOk THEN Some(ev.data) ELSE ev.cacheBefore
       /\ ev.posts = IF urlConfigured THEN 1 ELSE 0
       /\ ev.ok <=> (ev.posts = 1 /\ ev.net = "200")
       /\ ev.ok => remote[ev.data.userId] = Some(ev.data)
       /\ ~ev.ok => \/ remote[ev.data.userId] = ev.remoteBefore
                    \/ /\ ev.net = "timeout"
                       /\ remote[ev.data.userId] = Some(ev.data)

\* saveUserData returned false with d in the cache and another record at
\* the service.
C3_Witness ==
  /\ ev.op = "saveUserData" /\ ~ev.ok /\ ev.posts = 1
  /\ CacheEntry(ev.data.userId) = Some(ev.data)
  /\ remote[ev.data.userId] # Null
  /\ remote[ev.data.userId] # Some(ev.data)
  /\ remote[ev.data.userId] = ev.remoteBefore

\* C4 as stated: the cache entry of a user is always a record the service
\* holds or has held for that user.
C4_AsStated ==
  \A u \in Users :
     CacheEntry(u) # Null => Get(CacheEntry(u)) \in remoteHist[u]

\* C4: the cache entry of a user is always either a record the service
\* holds or has held for that user, or the record the most recent
\* saveUserData call wrote to the cache.
C4_CacheProvenance ==
  \A u \in Users :
     CacheEntry(u) # Null =>
        \/ Get(CacheEntry(u)) \in remoteHist[u]
        \/ CacheEntry(u) = lastLocal[u]

\* The cache holds a record written by saveUserData that the service never
\* held, after the service held another one.
C4_Witness ==
  \E u \in Users :
     /\ CacheEntry(u) # Null
     /\ CacheEntry(u) = lastLocal[u]
     /\ Get(CacheEntry(u)) \notin remoteHist[u]
     /\ remoteHist[u] # {}
     /\ pc = "idle"

(***************************************************************************)
(* Claims about lib/notificationScheduler.ts                               *)
(***************************************************************************)
NagTimers == Live("nagStart") \cup Live("nagInterval")

\* C5: at any time at most one nag-start delay and at most one recurring
\* nag interval are live, and never both; startNagNotifications with
\* permission leaves exactly one chain whatever was running before it; and
\* a nag is sent no sooner than NAG_INTERVAL_MIN minutes after the nag
\* before it.
C5_OneChain ==
  /\ Cardinality(Live("nagStart")) <= 1
  /\ Cardinality(Live("nagInterval")) <= 1
  /\ Cardinality(NagTimers) <= 1
  /\ (ev.op = "startNagNotifications" /\ ev.granted) =>
        Cardinality(NagTimers) = 1
  /\ ev.op = "sendNag" => ev.gap >= NAG_INTERVAL_MIN

\* startNagNotifications has run with permission while the delay of an
\* earlier start was still pending.
C5_Witness ==
  /\ ev.op = "startNagNotifications" /\ ev.granted /\ ev.before = "armed"
  /\ Cardinality(NagTimers) = 1

\* C6: the escalation is idle until startNagNotifications runs with
\* permission; that call, from idle, armed or looping alike, leaves it armed
\* with the full NAG_START_DELAY_MIN minutes to go; the delay runs out
\* exactly NAG_START_DELAY_MIN minutes after that call, a nag is sent then
\* and not before, and the escalation is looping; while looping the next
\* nag is sent exactly NAG_INTERVAL_MIN minutes after the nag before it.
C6_Escalation ==
  /\ (NagState = "idle") <=> (sinceStart = -1)
  /\ (ev.op = "startNagNotifications" /\ ev.granted) =>
        /\ NagState = "armed"
        /\ \A t \in Live("nagStart") : t.due = NAG_START_DELAY_MIN
  /\ NagState = "armed" =>
        \A t \in Live("nagStart") : t.due = NAG_START_DELAY_MIN - sinceStart
  /\ NagState = "looping" =>
        /\ sinceStart = NAG_START_DELAY_MIN
        /\ \A t \in Live("nagInterval") : t.due = NAG_INTERVAL_MIN - sinceNag
  /\ ev.op = "sendNag" =>
        /\ ev.sinceStart = NAG_START_DELAY_MIN
        /\ NagState = "looping"
        /\ ev.from = "interval" => ev.gap = NAG_INTERVAL_MIN

\* The recurring interval has sent a nag, NAG_INTERVAL_MIN minutes after
\* the nag before it.
C6_Witness ==
  /\ ev.op = "sendNag" /\ ev.from = "interval" /\ ev.gap = NAG_INTERVAL_MIN
  /\ NagState = "looping"

\* C7: stopNagNotifications leaves no nag-start delay and no recurring
\* interval, from any state; it changes nothing when the escalation is
\* idle, and never changes a countdown, the timers map or the stored list;
\* and no nag is sent while the escalation has been stopped and not started
\* again.
C7_Stop ==
  [][/\ ev'.op = "stopNagNotifications" =>
          /\ nagTimer' = Null /\ nagStartTimer' = Null
          /\ NagTimers' = {}
          /\ Live("countdown")' = Live("countdown")
          /\ UNCHANGED <<timers, localStorage>>
          /\ NagState = "idle" =>
               UNCHANGED <<host, nagTimer, nagStartTimer>>
     /\ ev'.op = "sendNag" => sinceStart # -1]_vars

\* stopNagNotifications has run while the recurring interval was live and
\* a countdown was pending.
C7_Witness ==
  /\ ev.op = "stopNagNotifications" /\ ev.before = "looping"
  /\ NagState = "idle"
  /\ Live("countdown") # {}

\* An id made by scheduleTask, as the claim words it.
TaskDerived(id) == \E p \in {"reminder_", "start_", "end_"} : startsWith(id, p)
CountdownsIn(hostTimers, id) ==
  {t \in hostTimers : t.fn = "countdown" /\ t.n.id = id}
Pending(hostTimers) ==
  {[n |-> t.n, due |-> t.due] : t \in {c \in hostTimers : c.fn = "countdown"}}

\* C8: scheduleAllTasks(tasks) leaves every countdown whose id does not
\* start with reminder_, start_ or end_ as it was, with its entry of the
\* timers map, and leaves the nag delay and interval as they were; the
\* countdowns with such an id that are pending afterwards are the ones this
\* call armed, one per id, among them the start of every given task whose
\* start is ahead; with an empty list none is pending.
C8_Frame ==
  [][ev'.op = "scheduleAllTasks" =>
       /\ {t \in Live("countdown")' : ~TaskDerived(t.n.id)}
            = {t \in Live("countdown") : ~TaskDerived(t.n.id)}
       /\ {k \in DOMAIN timers' : ~TaskDerived(k)}
            = {k \in DOMAIN timers : ~TaskDerived(k)}
       /\ \A k \in DOMAIN timers : ~TaskDerived(k) => timers'[k] = timers[k]
       /\ UNCHANGED <<nagTimer, nagStartTimer>>
       /\ NagTimers' = NagTimers
       /\ \A t \in Live("countdown")' :
             TaskDerived(t.n.id) => [n |-> t.n, due |-> t.due] \in ev'.armed
       /\ \A a \in ev'.armed : Cardinality(CountdownsIn(host', a.n.id)) = 1
       /\ \A i \in DOMAIN ev'.tasks :
             (ev'.tasks[i].startTime # Null
                /\ Get(ev'.tasks[i].startTime) > DateNow)
               => CountdownsIn(host', "start_" \o ev'.tasks[i].id) # {}
       /\ ev'.tasks = <<>> =>
             \A t \in Live("countdown")' : ~TaskDerived(t.n.id)]_vars

\* scheduleAllTasks([]) has cancelled a task's countdowns while the nag
\* escalation was running and another countdown was pending.
C8_Witness ==
  /\ ev.op = "scheduleAllTasks" /\ ev.tasks = <<>>
  /\ \E id \in ev.cancelled : startsWith(id, "start_")
  /\ NagState # "idle"
  /\ Countdowns("nag_1") # {}

\* C9: at most one countdown is pending per notification id, and it carries
\* the notification of the last schedule call for that id; after a schedule
\* call with an instant not in the past the one countdown of the id is the
\* call's; a countdown that fires is that last one, and once it has fired
\* the id has no countdown left to fire again.
C9_OnePerId ==
  /\ \A id \in NotificationIds : Cardinality(Countdowns(id)) <= 1
  /\ \A t \in Live("countdown") : latest[t.n.id] = Some(t.n)
  /\ (ev.op = "schedule" /\ ev.n.scheduledAt >= DateNow) =>
        Pending(Countdowns(ev.n.id))
          = {[n |-> Payload(ev.n), due |-> ev.n.scheduledAt - DateNow]}
  /\ ev.op = "expire" =>
        /\ ev.wasLatest
        /\ Countdowns(ev.n.id) = {}
        /\ latest[ev.n.id] = Null

\* schedule has been called for an id whose earlier countdown, with another
\* body, was still pending.
C9_Witness ==
  /\ ev.op = "schedule" /\ ev.replaced /\ ev.armed # {}
  /\ Cardinality(Countdowns(ev.n.id)) = 1

ArmedIds == {a.n.id : a \in ev.armed}
ArmedAt(id, at) ==
  /\ \E a \in ev.armed : a.n.id = id /\ a.due = at - DateNow
  /\ \E t \in Countdowns(id) : t.due = at - DateNow

\* C10 as stated: each of the three instants by itself gets a countdown
\* when it is ahead and none when it is not.
C10_AsStated ==
  (ev.op = "scheduleTask" /\ ev.task.startTime # Null) =>
    LET startAt == Get(ev.task.startTime)
        endAt == startAt + ev.task.duration
        reminderAt == startAt - REMINDER_LEAD_MIN
    IN  /\ (reminderAt > DateNow) <=> ("reminder_" \o ev.task.id \in ArmedIds)
        /\ (startAt > DateNow) <=> ("start_" \o ev.task.id \in ArmedIds)
        /\ (endAt > DateNow) <=> ("end_" \o ev.task.id \in ArmedIds)

\* C10: scheduleTask(task) with a startTime arms nothing when the start is
\* not ahead, whatever the end; when the start is ahead it arms the start
\* and the end at their instants, and the reminder at its instant exactly
\* when that instant is ahead too.
C10_StartGates ==
  (ev.op = "scheduleTask" /\ ev.task.startTime # Null) =>
    LET startAt == Get(ev.task.startTime)
        endAt == startAt + ev.task.duration
        reminderAt == startAt - REMINDER_LEAD_MIN
    IN  IF startAt > DateNow
          THEN /\ ArmedAt("start_" \o ev.task.id, startAt)
               /\ ArmedAt("end_" \o ev.task.id, endAt)
               /\ IF reminderAt > DateNow
                    THEN ArmedAt("reminder_" \o ev.task.id, reminderAt)
                    ELSE "reminder_" \o ev.task.id \notin ArmedIds
          ELSE ev.armed = {}

\* scheduleTask has been given a task whose start has passed and whose end
\* is ahead, and armed nothing.
C10_Witness ==
  /\ ev.op = "scheduleTask" /\ ev.task.startTime # Null
  /\ Get(ev.task.startTime) < DateNow
  /\ Get(ev.task.startTime) + ev.task.duration > DateNow
  /\ ev.armed = {}

\* C11: scheduleTask with no startTime, or with a startTime in the past,
\* arms nothing and leaves every live timer, the timers map and the stored
\* list as they were.
C11_PastStart ==
  [][(/\ ev'.op = "scheduleTask"
      /\ \/ ev'.task.startTime = Null
         \/ Get(ev'.task.startTime) < DateNow)
       => /\ ev'.armed = {}
          /\ UNCHANGED <<host, timers, localStorage>>]_vars

\* scheduleTask has been given a past startTime while the same task's start
\* countdown, from an earlier call, was pending; it is pending still.
C11_Witness ==
  /\ ev.op = "scheduleTask" /\ ev.task.startTime # Null
  /\ Get(ev.task.startTime) < DateNow
  /\ Countdowns("start_" \o ev.task.id) # {}

\* C12 as stated: every step that changes which ids have a pending countdown
\* (schedule, a countdown firing, the cancellations of scheduleAllTasks and
\* clearAll) leaves the stored list equal to the set of pending ids.
C12_AsStated ==
  [][PendingIds(host') # PendingIds(host)
       => StoredIds(localStorage') = PendingIds(host')]_vars

\* The calls that arm a timer.
ArmingOps == {"schedule", "scheduleTask", "scheduleAllTasks",
              "startNagNotifications"}

\* C13: clearAll leaves no pending countdown, no nag timer of either kind
\* and no stored list; and as long as no timer is live, a step that is not
\* schedule, scheduleTask, scheduleAllTasks or startNagNotifications leaves
\* none live and is not a firing of a countdown or of a nag.
C13_ClearAll ==
  [][/\ ev'.op = "clearAll"
          => /\ host' = {} /\ timers' = EmptyMap
             /\ nagTimer' = Null /\ nagStartTimer' = Null
             /\ localStorage'[STORAGE_KEY] = Null
     /\ (host = {} /\ ev'.op \notin ArmingOps)
          => /\ host' = {}
             /\ ev'.op \notin {"expire", "sendNag"}]_vars

C13_Witness ==
  /\ ev.op = "clearAll" /\ ev.cancelled # {} /\ ev.before = "looping"
  /\ localStorage[STORAGE_KEY] = Null /\ host = {}

\* C14: a countdown or a nag that fires while the permission is not granted
\* delivers nothing, whatever the permission was when it was armed (the
\* callback ends there, with the timer bookkeeping done as usual); and
\* startNagNotifications called without the permission arms no timer and
\* leaves the nag timers as they were.
C14_NoPermission ==
  [][/\ (ev'.op \in {"expire", "sendNag"} /\ ~permission')
          => ev'.shown = Null
     /\ (ev'.op = "expire" /\ ~permission')
          => /\ ev'.n.id \notin DOMAIN timers'
             /\ StoredIds(localStorage') = DOMAIN timers'
     /\ (ev'.op = "startNagNotifications" /\ ~permission')
          => UNCHANGED <<host, nagTimer, nagStartTimer>>]_vars

\* A nag armed with the permission fires in a waking hour after the
\* permission was withdrawn.
C14_Witness ==
  /\ ev.op = "sendNag" /\ ~permission
  /\ ev.hour >= 6 /\ ev.hour < 23
  /\ ev.shown = Null

\* C15: a nag that fires at an hour from 23 to 5 delivers nothing; at any
\* other hour, with the permission, it delivers one notification of type
\* nag; and in both cases the escalation goes on: the recurring interval is
\* live and next due a full interval later.
C15_QuietHours ==
  ev.op = "sendNag"
    => /\ (ev.hour >= 23 \/ ev.hour < 6) => ev.shown = Null
       /\ (ev.hour >= 6 /\ ev.hour < 23 /\ permission)
            => (ev.shown # Null /\ Get(ev.shown).type = "nag")
       /\ NagState = "looping"
       /\ \A t \in Live("nagInterval") : t.due = NAG_INTERVAL_MIN

\* A nag suppressed by the hour alone, with the chain still looping.
C15_Witness ==
  /\ ev.op = "sendNag" /\ ev.hour = 23 /\ permission
  /\ ev.shown = Null /\ NagState = "looping"

(***************************************************************************)
(* Properties of the record helpers (checked under SpecSessions and        *)
(* SpecStats).                                                             *)
(***************************************************************************)
\* The creation instant and source of each session kept, in list order.
SessionKeys(sessions) ==
  [i \in DOMAIN sessions |-> [timestamp |-> sessions[i].timestamp,
                              source |-> sessions[i].source]]

\* C16: the record never holds more than MAX_SESSIONS sessions, and the
\* sessions it holds are the MAX_SESSIONS most recently created ones (all of
\* them while there are fewer), in the order of their creation.
C16_SessionCap ==
  /\ Len(userData.sessions) <= MAX_SESSIONS
  /\ SessionKeys(userData.sessions) = slice(created, MAX_SESSIONS)

\* An append has created a session in a record that held MAX_SESSIONS.
C16_Witness ==
  /\ ev.op = "appendMessage" /\ ev.idx = 0 /\ ev.before = MAX_SESSIONS
  /\ Len(created) > MAX_SESSIONS
  /\ Len(userData.sessions) = MAX_SESSIONS
  /\ userData.sessions[MAX_SESSIONS].messages = <<ev.message>>

\* The places of the sessions of one date and one source.
SessionsOf(sessions, date, source) ==
  {i \in DOMAIN sessions : /\ toISODate(sessions[i].timestamp) = date
                           /\ sessions[i].source = source}

\* C17: the record holds at most one session for a date and a source.  An
\* append for a date and source that have a session adds the message at the
\* end of that session and changes nothing else; any other append adds, at
\* the end of the list, one session of that instant and source holding just
\* the message, the sessions before it being those the record had (the
\* oldest dropped when that makes more than MAX_SESSIONS).
C17_OnePerDaySource ==
  [][ev'.op = "appendMessage"
       => LET old == userData.sessions
              new == userData'.sessions
              today == toISODate(wallClock)
              mine == SessionsOf(old, today, ev'.source)
          IN  /\ \A i, j \in DOMAIN new :
                   (/\ toISODate(new[i].timestamp) = toISODate(new[j].timestamp)
                    /\ new[i].source = new[j].source) => i = j
              /\ mine # {}
                   => /\ Len(new) = Len(old)
                      /\ \A i \in DOMAIN old :
                           new[i] = IF i \in mine
                                      THEN [old[i] EXCEPT !.messages =
                                              Append(@, ev'.message)]
                                    ELSE old[i]
              /\ mine = {}
                   => /\ new # <<>>
                      /\ new[Len(new)] = [id |-> wallClock,
                                          timestamp |-> wallClock,
                                          source |-> ev'.source,
                                          messages |-> <<ev'.message>>]
                      /\ SubSeq(new, 1, Len(new) - 1)
                           = slice(old, MAX_SESSIONS - 1)]_vars

\* An append has joined today's session of its source while the other
\* source has a session of today as well.
C17_Witness ==
  /\ ev.op = "appendMessage" /\ ev.idx > 0
  /\ \A src \in Sources :
       SessionsOf(userData.sessions, toISODate(wallClock), src) # {}
  /\ Len(userData.sessions[ev.idx].messages) >= 2

\* C18: after addStudyTime on date D, lastActiveDate is D, and streaks is
\* one more than before when lastActiveDate was D - 1, what it was when
\* lastActiveDate was D, and 1 in every other case.
C18_StreakRule ==
  ev.op = "addStudyTime"
    => LET D == toISODate(wallClock)
       IN  /\ userData.stats.lastActiveDate = D
           /\ userData.stats.streaks =
                IF ev.before.lastActiveDate = D - 1 THEN ev.before.streaks + 1
                ELSE IF ev.before.lastActiveDate = D THEN ev.before.streaks
                ELSE 1

\* A call on the day after the last active day has made a streak of two.
C18_Witness ==
  /\ ev.op = "addStudyTime"
  /\ ev.before.lastActiveDate = toISODate(wallClock) - 1
  /\ ev.before.streaks >= 1
  /\ userData.stats.streaks = ev.before.streaks + 1

\* How many consecutive dates up to d are in days.
RECURSIVE RunEnding(_, _)
RunEnding(days, d) == IF d \in days THEN 1 + RunEnding(days, d - 1) ELSE 0

\* C19 as stated: once addStudyTime has been called on a record made by
\* createDefaultUserData, streaks is the length of the run of consecutive
\* dates with a call that ends at the date of the last call, whether or
\* not the first call was on the date the record was made.
C19_AsStated ==
  activeDays # {}
    => userData.stats.streaks
         = RunEnding(activeDays, userData.stats.lastActiveDate)

\* The messages appended on one date, in the order of the calls.
RECURSIVE AppendedOn(_, _)
AppendedOn(entries, date) ==
  IF entries = <<>> THEN <<>>
  ELSE (IF Head(entries).date = date THEN <<Head(entries).message>> ELSE <<>>)
         \o AppendedOn(Tail(entries), date)

\* C20 as stated: getTodayMessages returns the messages most recently
\* appended today, at most TODAY_MESSAGES of them, in the order they were
\* appended, also when today's messages went by turns to a web session and
\* to a line session.
C20_AsStated ==
  ev.op = "getTodayMessages"
    => ev.result = slice(AppendedOn(appended, toISODate(wallClock)),
                         TODAY_MESSAGES)

(***************************************************************************)
(* Properties of the chat turn and of the task helpers (checked under      *)
(* SpecChat and SpecTasks).                                                *)
(***************************************************************************)
\* C21: in every record the chat turns reach from the default record, a
\* running timer has its startedAt set.  A saved start_timer turn leaves as
\* the timer exactly what the action and the clock give, nothing of the
\* timer before; a saved stop_timer turn changes isRunning alone; and any
\* other turn leaves the timer as it was.
C21_Timer ==
  /\ userData.timer.isRunning => userData.timer.startedAt # Null
  /\ ev.op = "chatTurn"
       => LET name == IF ev.action = Null \/ ev.outcome # "saved" THEN "none"
                      ELSE Get(ev.action).action
          IN  userData.timer =
                IF name = "start_timer"
                  THEN LET d == Get(Get(ev.action).data)
                       IN  [taskId |-> d.taskId, taskTitle |-> d.taskTitle,
                            startedAt |-> Some(wallClock),
                            duration |-> IF d.duration = Null THEN 25
                                         ELSE Get(d.duration),
                            phase |-> IF d.phase = Null THEN "work"
                                      ELSE Get(d.phase),
                            isRunning |-> TRUE]
                ELSE IF name = "stop_timer"
                  THEN [ev.timer EXCEPT !.isRunning = FALSE]
                ELSE ev.timer

\* A start_timer that names no task has replaced a running timer that
\* named one, at a later instant.
C21_Witness ==
  /\ ev.op = "chatTurn" /\ ev.outcome = "saved"
  /\ ev.timer.isRunning /\ ev.timer.taskId # Null
  /\ ev.timer.startedAt # Some(wallClock)
  /\ userData.timer.isRunning /\ userData.timer.taskId = Null
  /\ userData.timer.startedAt = Some(wallClock)

\* C24: addTask and completeTask change nothing of the record but
\* schedule.today.  addTask puts one task at its end, made of the fields
\* given, the instant as id and as createdAt, and keeps the tasks before
\* it; completeTask keeps the number and the order of the tasks, sets the
\* status of those with the id given to done and keeps every other field
\* and task, so the record is the same when no task has the id.
C24_TasksKept ==
  [][ev'.op \in {"addTask", "completeTask"}
       => LET old == userData.schedule.today
              new == userData'.schedule.today
          IN  /\ [userData' EXCEPT !.schedule.today = old] = userData
              /\ ev'.op = "addTask"
                   => new = Append(old,
                          [id |-> wallClock, title |-> ev'.task.title,
                           category |-> ev'.task.category,
                           startTime |-> ev'.task.startTime,
                           duration |-> ev'.task.duration,
                           status |-> ev'.task.status,
                           createdAt |-> wallClock])
              /\ ev'.op = "completeTask"
                   => /\ Len(new) = Len(old)
                      /\ \A i \in DOMAIN old :
                           new[i] = IF old[i].id = ev'.taskId
                                      THEN [old[i] EXCEPT !.status = "done"]
                                    ELSE old[i]
                      /\ (\A i \in DOMAIN old : old[i].id # ev'.taskId)
                           => userData' = userData]_vars

\* completeTask has set one task of a longer list to done and kept another
\* as it was.
C24_Witness ==
  /\ ev.op = "completeTask" /\ Len(ev.before) >= 2
  /\ \E i, j \in DOMAIN ev.before :
       /\ ev.before[i].id = ev.taskId /\ ev.before[i].status # "done"
       /\ userData.schedule.today[i].status = "done"
       /\ ev.before[j].id # ev.taskId
       /\ userData.schedule.today[j] = ev.before[j]

\* C25 as stated: whatever addTask calls were made, two of them at the same
\* reading of the clock included, no two tasks of schedule.today have the
\* same id.
C25_AsStated ==
  \A i, j \in DOMAIN userData.schedule.today :
     userData.schedule.today[i].id = userData.schedule.today[j].id => i = j

(***************************************************************************)
(* Properties of the visibility wiring (checked under SpecVisibility).     *)
(***************************************************************************)
\* C23: with the listeners of setupVisibilityTracking driving the nag
\* chain, whatever the order of the events: after the document is hidden
\* or pagehide, with the permission, the delay is armed for the full
\* NAG_START_DELAY_MIN; after the document shows or pageshow the chain is
\* idle; the chain is idle whenever the application is in the foreground;
\* and a nag callback runs only out of the foreground, NAG_START_DELAY_MIN
\* minutes or more after the application left it.
C23_Visibility ==
  /\ (ev.op = "pagehide" \/ (ev.op = "visibilitychange" /\ ev.hidden))
       => (permission
             => /\ NagState = "armed"
                /\ \A t \in Live("nagStart") : t.due = NAG_START_DELAY_MIN)
  /\ (ev.op = "pageshow" \/ (ev.op = "visibilitychange" /\ ~ev.hidden))
       => NagState = "idle"
  /\ Foreground => NagState = "idle"
  /\ ev.op = "sendNag" => (~Foreground /\ away = NAG_START_DELAY_MIN)

\* The application is back in the foreground less than NAG_START_DELAY_MIN
\* minutes after it left, and the delay that was armed is gone.
C23_Witness ==
  /\ ev.op = "visibilitychange" /\ ~ev.hidden
  /\ ev.before = "armed" /\ ev.away > 0 /\ ev.away < NAG_START_DELAY_MIN
  /\ Foreground /\ host = {} /\ permission

(***************************************************************************)
(* Properties of the helpers on the record's objects (checked under        *)
(* SpecHeap).                                                              *)
(***************************************************************************)
\* C22: a call of addTask, completeTask, addStudyTime or appendMessage
\* writes into no object that existed before it, so the record passed and
\* everything under it (schedule, sessions, stats) stand for the same value
\* afterwards; it returns an object that did not exist before, standing for
\* the value the helper computes from the value passed; and it leaves the
\* local cache and the remote store alone.
C22_Pure ==
  [][ev'.op \in {"addTask", "completeTask", "addStudyTime", "appendMessage"}
       => /\ \A a \in DOMAIN heap : heap'[a] = heap[a]
          /\ Deref(heap', root) = Deref(heap, root)
          /\ root' \notin DOMAIN heap
          /\ Deref(heap', root') =
               CASE ev'.op = "addTask" ->
                      addTask(Deref(heap, root), ev'.args[1], wallClock)
                 [] ev'.op = "completeTask" ->
                      completeTask(Deref(heap, root), ev'.args[1])
                 [] ev'.op = "addStudyTime" ->
                      addStudyTime(Deref(heap, root), ev'.args[1],
                                   ev'.args[2], wallClock)
                 [] ev'.op = "appendMessage" ->
                      appendMessage(Deref(heap, root), ev'.args[1],
                                    ev'.args[2], wallClock)
          /\ UNCHANGED <<localStorage, remote>>]_vars

\* appendMessage has added a message to a session the record passed
\* already had, and addStudyTime before it to the stats: the record passed
\* is still there with one message fewer.
C22_Witness ==
  /\ ev.op = "appendMessage"
  /\ Len(Deref(heap, ev.passed).sessions) = 1
  /\ Len(Deref(heap, root).sessions) = 1
  /\ Len(Deref(heap, root).sessions[1].messages)
       = Len(Deref(heap, ev.passed).sessions[1].messages) + 1
  /\ Deref(heap, root).stats.streaks = 1

====
